---- MODULE Spec2Model ----
(***************************************************************************)
(* Flowturi layout engines.                                                *)
(*                                                                         *)
(*   computeLayout          historical planner  (src/layout/computeLayout) *)
(*   computeRealtimeLayout  real-time stabilizer                           *)
(*   updateNodePosition / resetNodePositions   drag overrides              *)
(*                                                                         *)
(* Numbers.  The code computes with JavaScript doubles.  Heights are       *)
(* integers (Math.floor / Math.round); vertical positions are integers or  *)
(* half integers (the centring offset is a difference divided by two).     *)
(* Positions are therefore kept in half pixels (suffix 2 = "times two"),   *)
(* heights and link values in whole units, and every product/quotient is   *)
(* evaluated exactly before Math.floor / Math.round is applied.            *)
(***************************************************************************)
EXTENDS Integers, Sequences, FiniteSets, TLC

VARIABLES
    engine,        \* which part of the program runs: "historical", "realtime",
                   \* "steady", "order", "sessions", "ports", "stream", "socket"
    frames,        \* historical: FrameData[] held by the host (snapshots)
    layoutInput,   \* historical: the frames of the last computeLayout call
    layoutStates,  \* historical: LayoutState[] that call returned
    stored,        \* historical: overrides stored by drags since the last reset
    drags,         \* historical: number of updateNodePosition calls so far
    rtFirstTick,   \* real-time: tick of the producer's first frame, or undefined
    rtCustomPositions, \* real-time: customPositions state of the diagram
    rtClock,       \* real-time: frames received so far
    rtFrame,       \* real-time: latestFrame, <<>> before the first
    rtCache,       \* real-time: smoothingCacheRef.current, <<>> for null
    rtLayout,      \* real-time: LayoutState returned last, <<>> for null
    rtEmitted,     \* real-time history: layer last emitted for each node
    rtNodeSeenAt,  \* real-time history: frame number a node was last sent in
    rtLinkSeenAt,  \* real-time history: frame number a valid link was last sent in
    rtGap,         \* real-time history: for each node of the latest frame, how
                   \* many frames ago it was sent before (0: never)
    sessions,      \* two diagrams: per session the frames received, the
                   \* cache it holds and the LayoutStates it was given
    portHeight,  \* ports: height of the node the links attach to
    portsUsed, \* ports: usedPorts of that node in this computation
    lastMessage,  \* stream: lastMessage of the socket provider, <<>> for null
    streamEffect,  \* stream: dependencies the forwarding effect last ran with
    snapshots,  \* stream: snapshots state of the App, as arrival numbers
    currentIndex,  \* stream: currentIndex state of the App
    latestFrame,  \* stream: latestFrame state of the App, <<>> for null
    arrived, \* stream history: data frames the socket has delivered so far
    sockets,  \* socket: every WebSocket created so far, in creation order
    wsRef,  \* socket: wsRef.current as an index into sockets, 0 for null
    manualDisconnectRef,  \* socket: manualDisconnectRef.current
    connectTimeoutRef,  \* socket: connectTimeoutRef.current as the socket it
                        \* guards, 0 for null
    connectTimeouts,  \* socket: sockets whose connection timeout is still pending
    heartbeatIntervalRef,  \* socket: whether the heartbeat interval is running
    isConnected,  \* socket: isConnected state
    connectionStatus,  \* socket: connectionStatus state
    wsError,  \* socket: error state, "" for null
    reconnectTimers,  \* socket: sockets whose close left a reconnect timer pending
    lastCall, \* socket history: the last of connect(url) by the user and
              \* disconnect()
    sortValues,  \* layer sort: nodeValues of the nodes of one layer
    sortCounts,  \* layer sort: connectionCounts of those nodes
    sortListed,  \* layer sort: the nodes in the order the frames list them
    sortResult, \* layer sort: the layer after nodes.sort, <<>> before
    editHeap,  \* edits: the frame, array and node objects allocated so far
    editFrames,  \* edits: the snapshots the host holds, as frame references
    editHeapBefore,  \* edits history: the objects as they were before the last call
    editInput,  \* edits history: the frames passed to the last call
    editCalls,  \* edits history: the calls made, with their arguments
    editOriginal  \* edits history: the frames as loaded, by value

histVars == <<frames, layoutInput, layoutStates, stored, drags>>

rtVars == <<rtFirstTick, rtCustomPositions, rtClock, rtFrame, rtCache,
            rtLayout, rtEmitted, rtNodeSeenAt, rtLinkSeenAt, rtGap>>

sessionVars == <<sessions>>

portVars == <<portHeight, portsUsed>>

appVars == <<lastMessage, streamEffect, snapshots, currentIndex, latestFrame, arrived>>

socketVars == <<sockets, wsRef, manualDisconnectRef, connectTimeoutRef, connectTimeouts, heartbeatIntervalRef, isConnected, connectionStatus, wsError, reconnectTimers, lastCall>>

sortVars == <<sortValues, sortCounts, sortListed, sortResult>>

editVars == <<editHeap, editFrames, editHeapBefore, editInput, editCalls, editOriginal>>

\* Everything outside the two layout engines' own state.
auxVars == <<sessionVars, portVars, appVars, socketVars, sortVars, editVars>>

vars == <<engine, frames, layoutInput, layoutStates, stored, drags,
          rtFirstTick, rtCustomPositions, rtClock, rtFrame, rtCache,
          rtLayout, rtEmitted, rtNodeSeenAt, rtLinkSeenAt, rtGap,
          sessions,
          portHeight, portsUsed,
          lastMessage, streamEffect, snapshots, currentIndex, latestFrame,
          arrived,
          sockets, wsRef, manualDisconnectRef, connectTimeoutRef,
          connectTimeouts, heartbeatIntervalRef, isConnected,
          connectionStatus, wsError, reconnectTimers, lastCall,
          sortValues, sortCounts, sortListed, sortResult,
          editHeap, editFrames, editHeapBefore, editInput, editCalls, editOriginal>>

(***************************************************************************)
(* Bounds of the model.                                                    *)
(***************************************************************************)
MaxFrames == 2  \* frames in one historical batch
MaxDrags == 1  \* updateNodePosition calls explored per batch
MaxCalls == 8  \* frames streamed in one real-time session
RtEpoch == 1000  \* timestamp of the first streamed frame, in seconds
MaxSessionCalls == 2  \* frames each of the two interleaved sessions receives
MaxSmoothCalls == 3  \* frames of a session whose link values include 0
MaxOrderCalls == 4  \* frames of a session with a changing node set
MaxUserConnects == 2  \* connect(url) calls the user makes
MaxCloses == 2  \* sockets the network or the server closes
MaxMessages == 2  \* data frames the socket delivers
MaxLinksPerNode == 5  \* links of one frame that leave (or enter) one node
MaxSteadyCalls == 21  \* frames of a steady stream
MaxEdits == 2  \* drags and resets on one loaded file

(***************************************************************************)
(* Vocabulary.                                                             *)
(***************************************************************************)
\* Node names, listed in String.prototype.localeCompare order.
NodeNames == <<"A", "B", "C">>
Nodes == {NodeNames[i] : i \in DOMAIN NodeNames}

\* An optional numeric field that is absent (customX?, customY?, tick?).
undefined == -1

\* Frame parts.
Node(name) == [name |-> name, customX |-> undefined, customY |-> undefined]
Link(source, target, value) ==
    [source |-> source, target |-> target, value |-> value]

\* Positions a drag can drop a node at (pixels).
DragPositions == {[x |-> 0, y |-> 0], [x |-> 7, y |-> 9]}

\* Canvas handed to the historical planner: the default width and the
\* smallest height the diagram component passes.
HistWidth == 800
HistHeight == 350

(***************************************************************************)
(* Generic helpers standing for JavaScript array primitives.               *)
(***************************************************************************)
Max2(a, b) == IF a >= b THEN a ELSE b
Min2(a, b) == IF a <= b THEN a ELSE b
Abs(a) == IF a >= 0 THEN a ELSE -a

\* const v = value; Body(v): the value is computed once, then used.
With(value, Body(_)) == CHOOSE r \in {Body(v) : v \in {value}} : TRUE

RECURSIVE FoldFrom(_, _, _, _)
\* The accumulator after elements i, i+1, ... of arr.
FoldFrom(Op(_, _), acc, arr, i) ==
    IF i > Len(arr) THEN acc
    ELSE With(Op(acc, arr[i]), LAMBDA next : FoldFrom(Op, next, arr, i + 1))

\* Array.prototype.reduce / forEach with an accumulator.
FoldLeft(Op(_, _), acc, s) ==
    With(s, LAMBDA arr : FoldFrom(Op, acc, arr, 1))

\* Array.prototype.filter.
Filter(s, Keep(_)) == SelectSeq(s, Keep)

\* Array.prototype.map.
Map(s, F(_)) == [i \in DOMAIN s |-> F(s[i])]

\* The elements of an array.
Range(s) == {s[i] : i \in DOMAIN s}

RECURSIVE SumSeq(_)
SumSeq(s) == IF s = <<>> THEN 0 ELSE Head(s) + SumSeq(Tail(s))

RECURSIVE MaxSet(_)
\* Math.max(...values) over a non-empty set.
MaxSet(S) ==
    LET x == CHOOSE v \in S : TRUE
    IN  IF S = {x} THEN x ELSE Max2(x, MaxSet(S \ {x}))

\* String.prototype.localeCompare on node names: <0, 0 or >0.
NameIndex(name) == CHOOSE i \in DOMAIN NodeNames : NodeNames[i] = name
localeCompare(a, b) == NameIndex(a) - NameIndex(b)

(***************************************************************************)
(* Array.prototype.sort as V8 runs it on arrays shorter than 64 elements:  *)
(* one run is counted (and reversed when strictly descending), the rest is *)
(* inserted by binary insertion.  Cmp(a, b) is the comparator.             *)
(***************************************************************************)
Reverse(s) == [i \in DOMAIN s |-> s[Len(s) + 1 - i]]

RECURSIVE RunEnd(_, _, _, _)
\* Last index of the run that starts at 1, scanning from idx.
RunEnd(Cmp(_, _), arr, idx, isDescending) ==
    IF idx > Len(arr) THEN idx - 1
    ELSE LET order == Cmp(arr[idx], arr[idx - 1])
         IN  IF (isDescending /\ order >= 0) \/ (~isDescending /\ order < 0)
             THEN idx - 1
             ELSE RunEnd(Cmp, arr, idx + 1, isDescending)

RECURSIVE BinarySearch(_, _, _, _, _)
\* Insertion point of pivot in arr[left+1 .. right] (0-based left/right).
BinarySearch(Cmp(_, _), arr, pivot, left, right) ==
    IF left >= right THEN left
    ELSE LET mid == left + ((right - left) \div 2)
         IN  IF Cmp(pivot, arr[mid + 1]) < 0
             THEN BinarySearch(Cmp, arr, pivot, left, mid)
             ELSE BinarySearch(Cmp, arr, pivot, mid + 1, right)

RECURSIVE BinaryInsertionSort(_, _, _)
\* arr[1 .. start-1] is sorted; insert arr[start], arr[start+1], ...
BinaryInsertionSort(Cmp(_, _), arr, start) ==
    IF start > Len(arr) THEN arr
    ELSE LET pivot == arr[start]
             left == BinarySearch(Cmp, arr, pivot, 0, start - 1)
             moved == [i \in DOMAIN arr |->
                          IF i <= left THEN arr[i]
                          ELSE IF i = left + 1 THEN pivot
                          ELSE IF i <= start THEN arr[i - 1]
                          ELSE arr[i]]
         IN  With(moved, LAMBDA next : BinaryInsertionSort(Cmp, next, start + 1))

ArraySort(Cmp(_, _), arr) ==
    IF Len(arr) < 2 THEN arr
    ELSE LET isDescending == Cmp(arr[2], arr[1]) < 0
             runLength == RunEnd(Cmp, arr, 3, isDescending)
             run == IF isDescending
                    THEN Reverse(SubSeq(arr, 1, runLength))
                         \o SubSeq(arr, runLength + 1, Len(arr))
                    ELSE arr
         IN  BinaryInsertionSort(Cmp, run, runLength + 1)

(***************************************************************************)
(* computeLayout, STEP 1: gather data.                                     *)
(***************************************************************************)
\* The customPositions argument when the caller passes none.
NoCustomPositions == [n \in {} |-> [x |-> 0, y |-> 0]]

\* A variant whose update writes the override into every collected node.
AllNodesAddToAll(acc, node) ==
    IF \E i \in DOMAIN acc : acc[i].name = node.name
    THEN IF node.customX # undefined /\ node.customY # undefined
         THEN [i \in DOMAIN acc |->
                  [acc[i] EXCEPT !.customX = node.customX,
                                 !.customY = node.customY]]
         ELSE acc
    ELSE Append(acc, [name |-> node.name,
                      customX |-> node.customX,
                      customY |-> node.customY])

\* allNodes.set / update for one node of one frame (insertion ordered Map).
AllNodesAdd(acc, node) ==
    IF \E i \in DOMAIN acc : acc[i].name = node.name
    THEN IF node.customX # undefined /\ node.customY # undefined
         THEN [i \in DOMAIN acc |->
                  IF acc[i].name = node.name
                  THEN [acc[i] EXCEPT !.customX = node.customX,
                                      !.customY = node.customY]
                  ELSE acc[i]]
         ELSE acc
    ELSE Append(acc, [name |-> node.name,
                      customX |-> node.customX,
                      customY |-> node.customY])

AllNodesOfFrame(acc, frame) == FoldLeft(AllNodesAdd, acc, frame.nodes)

\* Custom positions passed directly to the function overwrite the frames'.
applyCustomPositions(all, customPositions) ==
    [i \in DOMAIN all |->
        IF all[i].name \in DOMAIN customPositions
        THEN [all[i] EXCEPT !.customX = customPositions[all[i].name].x,
                            !.customY = customPositions[all[i].name].y]
        ELSE all[i]]

\* allNodes: every distinct node of every frame, in first-appearance order.
allNodes(fs, customPositions) ==
    applyCustomPositions(FoldLeft(AllNodesOfFrame, <<>>, fs), customPositions)

NamesOf(all) == {all[i].name : i \in DOMAIN all}

\* Every link of every frame, in iteration order.
AllLinks(fs) == FoldLeft(LAMBDA acc, frame : acc \o frame.links, <<>>, fs)

\* nodeValues: total flow through each node across all frames; a link
\* counts when both ends are nodes of SOME frame.  (get(name) || 0)
nodeValues(fs, names) ==
    FoldLeft(LAMBDA acc, link :
                 IF link.source \notin names \/ link.target \notin names
                 THEN acc
                 ELSE LET a == [acc EXCEPT ![link.source] = @ + link.value]
                      IN  [a EXCEPT ![link.target] = @ + link.value],
             [n \in Nodes |-> 0], AllLinks(fs))

(***************************************************************************)
(* STEP 2: layers from the reference frame.                                *)
(***************************************************************************)
RECURSIVE BestFrame(_, _, _, _)
BestFrame(fs, index, maxElements, best) ==
    IF index > Len(fs) THEN best
    ELSE LET totalElements == Len(fs[index].nodes) + Len(fs[index].links)
         IN  IF totalElements > maxElements
             THEN BestFrame(fs, index + 1, totalElements, index)
             ELSE BestFrame(fs, index + 1, maxElements, best)

\* Index (from 1) of the frame with the most nodes + links, first on ties.
bestFrameIndex(fs) == BestFrame(fs, 1, 0, 1)

\* Reference-frame links whose two ends are known nodes.
validLinks(fs, names) ==
    Filter(fs[bestFrameIndex(fs)].links,
           LAMBDA link : link.source \in names /\ link.target \in names)

RECURSIVE computeNodeDepths(_, _, _, _, _)
\* d3-sankey's depth pass: breadth-first waves from all nodes; a node's
\* depth is the last wave that reaches it.  More than n waves: it throws.
computeNodeDepths(current, x, depth, links, n) ==
    IF current = {} THEN [threw |-> FALSE, depth |-> depth]
    ELSE LET assigned == [m \in DOMAIN depth |->
                             IF m \in current THEN x ELSE depth[m]]
             next == {links[i].target :
                         i \in {j \in DOMAIN links : links[j].source \in current}}
         IN  IF x + 1 > n
             THEN [threw |-> TRUE, depth |-> assigned]
             ELSE computeNodeDepths(next, x + 1, assigned, links, n)

\* A variant that leaves every node at depth 0.
tempSankeyFlat(fs, names) ==
    [threw |-> FALSE, depth |-> [m \in names |-> 0]]

\* tempSankey({nodes: fullNodes, links: tempLinks}) -> depth of each node.
tempSankey(fs, names) ==
    computeNodeDepths(names, 0, [m \in names |-> 0], validLinks(fs, names),
                      Cardinality(names))

(***************************************************************************)
(* STEP 3 and 4: group by layer, order each layer, size it, place it.      *)
(***************************************************************************)
\* connectionCounts: link ends per node name over all frames (unfiltered).
connectionCounts(fs) ==
    FoldLeft(LAMBDA acc, link :
                 LET a == [acc EXCEPT ![link.source] = @ + 1]
                 IN  [a EXCEPT ![link.target] = @ + 1],
             [n \in Nodes |-> 0], AllLinks(fs))

\* score * 10, so that 0.7 * value + 10 * connections stays an integer.
Score10(value, connections) == 7 * value + 100 * connections

\* The comparator of nodes.sort in "Sort nodes by importance".
compareImportance(a, b, values, counts) ==
    LET scoreA == Score10(values[a], counts[a])
        scoreB == Score10(values[b], counts[b])
    IN  \* |scoreB - scoreA| > min(scoreA, scoreB) * 0.2
        IF 5 * Abs(scoreB - scoreA) > Min2(scoreA, scoreB)
        THEN scoreB - scoreA
        ELSE localeCompare(a, b)

\* nodesByLayer.get(layer) after the sort: names top to bottom.
nodesByLayer(all, depth, layer, values, counts) ==
    LET members == Filter(Map(all, LAMBDA node : node.name),
                          LAMBDA name : depth[name] = layer)
    IN  ArraySort(LAMBDA a, b : compareImportance(a, b, values, counts),
                  members)

\* Layout configuration of computeLayout.
HistMarginTop == 20
HistMarginBottom == 20
HistMarginLeft == 20
HistMarginRight == 20
HistNodeWidth == 40
HistNodePadding == 20
HistMaxNodeHeight == 160
HistMinHeightFloor == 18

\* Math.round(a / b) for a >= 0, b > 0 (halves round up).
RoundDiv(a, b) == (2 * a + b) \div (2 * b)

\* minNodeHeight = Math.max(18, Math.round(height / 30))
minNodeHeight(height) == Max2(HistMinHeightFloor, RoundDiv(height, 30))

usableHeightOf(height) == height - HistMarginTop - HistMarginBottom

\* A variant whose first pass has no upper limit.
layerGeometryUncapped(nodes, values, height) ==
    LET usableHeight == usableHeightOf(height)
        minH == minNodeHeight(height)
        \* (nodeValues.get(name) || 1)
        valueOr1(name) == IF values[name] = 0 THEN 1 ELSE values[name]
        layerTotalValue == SumSeq(Map(nodes, valueOr1))
        totalAvailableHeight == usableHeight - (Len(nodes) - 1) * HistNodePadding
        \* first pass: proportional heights
        calculatedHeight(name) ==
            Max2(minH,
                 (Max2(1, valueOr1(name)) * totalAvailableHeight)
                     \div layerTotalValue)
        totalHeight1 == SumSeq(Map(nodes, calculatedHeight))
                            + (Len(nodes) - 1) * HistNodePadding
        \* scale down when the layer overflows
        scaledHeight(name) ==
            Max2(minH, (calculatedHeight(name) * usableHeight) \div totalHeight1)
        heightOf(name) == IF totalHeight1 > usableHeight
                          THEN scaledHeight(name) ELSE calculatedHeight(name)
        totalHeight == SumSeq(Map(nodes, heightOf))
                           + (Len(nodes) - 1) * HistNodePadding
        \* verticalOffset = max(0, (usableHeight - totalHeight) / 2), doubled
        verticalOffset2 == Max2(0, usableHeight - totalHeight)
        y2At(i) == 2 * HistMarginTop + verticalOffset2
                     + 2 * (SumSeq(Map(SubSeq(nodes, 1, i - 1), heightOf))
                            + (i - 1) * HistNodePadding)
    IN  [n \in Range(nodes) |->
            [height |-> heightOf(n),
             y2 |-> y2At(CHOOSE i \in DOMAIN nodes : nodes[i] = n)]]

\* Heights and y of one layer; nodes is the sorted array of the layer.
layerGeometry(nodes, values, height) ==
    LET usableHeight == usableHeightOf(height)
        minH == minNodeHeight(height)
        \* (nodeValues.get(name) || 1)
        valueOr1(name) == IF values[name] = 0 THEN 1 ELSE values[name]
        layerTotalValue == SumSeq(Map(nodes, valueOr1))
        totalAvailableHeight == usableHeight - (Len(nodes) - 1) * HistNodePadding
        \* first pass: proportional heights
        calculatedHeight(name) ==
            Max2(minH,
                 Min2(HistMaxNodeHeight,
                      (Max2(1, valueOr1(name)) * totalAvailableHeight)
                          \div layerTotalValue))
        totalHeight1 == SumSeq(Map(nodes, calculatedHeight))
                            + (Len(nodes) - 1) * HistNodePadding
        \* scale down when the layer overflows
        scaledHeight(name) ==
            Max2(minH, (calculatedHeight(name) * usableHeight) \div totalHeight1)
        heightOf(name) == IF totalHeight1 > usableHeight
                          THEN scaledHeight(name) ELSE calculatedHeight(name)
        totalHeight == SumSeq(Map(nodes, heightOf))
                           + (Len(nodes) - 1) * HistNodePadding
        \* verticalOffset = max(0, (usableHeight - totalHeight) / 2), doubled
        verticalOffset2 == Max2(0, usableHeight - totalHeight)
        y2At(i) == 2 * HistMarginTop + verticalOffset2
                     + 2 * (SumSeq(Map(SubSeq(nodes, 1, i - 1), heightOf))
                            + (i - 1) * HistNodePadding)
    IN  [n \in Range(nodes) |->
            [height |-> heightOf(n),
             y2 |-> y2At(CHOOSE i \in DOMAIN nodes : nodes[i] = n)]]

(***************************************************************************)
(* STEP 5: horizontal positions.                                           *)
(***************************************************************************)
\* xPositions.get(layer), doubled.
xPosition2(layer, layerCount, width) ==
    IF layerCount = 1 THEN 2 * HistMarginLeft
    ELSE 2 * HistMarginLeft
           + (2 * layer * (width - HistMarginLeft - HistMarginRight - HistNodeWidth))
               \div Max2(1, layerCount - 1)

(***************************************************************************)
(* Port assignment (getConnectionPoint), shared by both engines.           *)
(***************************************************************************)
\* maxPorts = Math.max(3, Math.floor(nodeHeight / 10))
maxPortsOf(nodeHeight) == Max2(3, nodeHeight \div 10)

\* The port tried at a given offset: alternately below and above the middle.
tryPortAt(maxPorts, offset) ==
    (maxPorts \div 2)
        + (IF offset % 2 = 0 THEN offset \div 2 ELSE -((offset + 1) \div 2))

\* The port index chosen for a node whose used ports are usedPorts:
\* the first free port in trial order, else the middle port again.
choosePort(nodeHeight, usedPorts) ==
    LET maxPorts == maxPortsOf(nodeHeight)
        free == {offset \in 0 .. maxPorts - 1 :
                    LET tryPort == tryPortAt(maxPorts, offset)
                    IN  tryPort >= 0 /\ tryPort < maxPorts
                          /\ tryPort \notin Range(usedPorts)}
    IN  IF free = {} THEN maxPorts \div 2
        ELSE tryPortAt(maxPorts, CHOOSE o \in free : \A p \in free : o <= p)

\* One link of frameLinks.forEach: claims a source and a target port and
\* pushes the link path.  acc = [sourcePortsUsed, targetPortsUsed, linkPaths].
\* pathValue is the value recorded on the path.
addLinkPath(acc, link, nodePositions, pathValue) ==
    IF link.source \notin DOMAIN nodePositions
         \/ link.target \notin DOMAIN nodePositions
    THEN acc
    ELSE LET sourcePort == choosePort(nodePositions[link.source].height,
                                      acc.sourcePortsUsed[link.source])
             targetPort == choosePort(nodePositions[link.target].height,
                                      acc.targetPortsUsed[link.target])
         IN  [sourcePortsUsed |->
                  [acc.sourcePortsUsed EXCEPT ![link.source] = Append(@, sourcePort)],
              targetPortsUsed |->
                  [acc.targetPortsUsed EXCEPT ![link.target] = Append(@, targetPort)],
              linkPaths |->
                  Append(acc.linkPaths,
                         [source |-> link.source, target |-> link.target,
                          sourcePort |-> sourcePort, targetPort |-> targetPort,
                          value |-> pathValue])]

\* Port claims start empty at every LayoutState computation.
NoPortsUsed ==
    [sourcePortsUsed |-> [n \in Nodes |-> <<>>],
     targetPortsUsed |-> [n \in Nodes |-> <<>>],
     linkPaths |-> <<>>]

(***************************************************************************)
(* STEP 6: one LayoutState per non-empty frame.                            *)
(* A LayoutState is [timestamp, nodePositions, linkPaths]; x and y are in  *)
(* half pixels, height and width in pixels.                                *)
(***************************************************************************)
\* A variant that tests the override by truthiness (0 counts as absent).
histNodePositionTruthy(node, layer, geometry, layerCount, width) ==
    LET hasCustomPosition == /\ node.customX # undefined /\ node.customX # 0
                             /\ node.customY # undefined /\ node.customY # 0
    IN  [x |-> IF hasCustomPosition THEN 2 * node.customX
               ELSE xPosition2(layer, layerCount, width),
         y |-> IF hasCustomPosition THEN 2 * node.customY
               ELSE geometry.y2,
         height |-> geometry.height,
         width |-> HistNodeWidth,
         layer |-> layer,
         isDragged |-> hasCustomPosition]

\* nodePositions[nodeName] of the per-frame loop.
histNodePosition(node, layer, geometry, layerCount, width) ==
    LET hasCustomPosition == node.customX # undefined /\ node.customY # undefined
    IN  [x |-> IF hasCustomPosition THEN 2 * node.customX
               ELSE xPosition2(layer, layerCount, width),
         y |-> IF hasCustomPosition THEN 2 * node.customY
               ELSE geometry.y2,
         height |-> geometry.height,
         width |-> HistNodeWidth,
         layer |-> layer,
         isDragged |-> hasCustomPosition]

\* A variant that gives up on all links of a frame that has a dangling one.
frameLinksAllOrNone(frame) ==
    LET frameNodeSet == {frame.nodes[i].name : i \in DOMAIN frame.nodes}
    IN  IF \A i \in DOMAIN frame.links :
               /\ frame.links[i].source \in frameNodeSet
               /\ frame.links[i].target \in frameNodeSet
        THEN frame.links
        ELSE <<>>

\* frameLinks: links whose two ends are nodes of this frame.
frameLinks(frame) ==
    LET frameNodeSet == {frame.nodes[i].name : i \in DOMAIN frame.nodes}
    IN  Filter(frame.links,
               LAMBDA link : link.source \in frameNodeSet
                               /\ link.target \in frameNodeSet)

\* d3-sankey throws "circular link" out of computeLayout.
computeLayoutThrows(fs) ==
    /\ fs # <<>>
    /\ tempSankey(fs, NamesOf(allNodes(fs, NoCustomPositions))).threw

\* The body of computeLayout: one plan for the whole batch, then one
\* LayoutState per non-empty frame.
planLayout(fs, width, height, customPositions) ==
    IF fs = <<>> THEN <<>>
    ELSE
    LET all == allNodes(fs, customPositions)
        names == NamesOf(all)
        values == nodeValues(fs, names)
        counts == connectionCounts(fs)
        depth == tempSankey(fs, names).depth
        layers == {depth[n] : n \in names}
        layerCount == MaxSet(layers) + 1
        geometry == [layer \in layers |->
                        layerGeometry(nodesByLayer(all, depth, layer, values, counts),
                                      values, height)]
        nodeOf(name) == all[CHOOSE i \in DOMAIN all : all[i].name = name]
        layoutState(frame) ==
            LET nodePositions ==
                    [name \in {frame.nodes[i].name : i \in DOMAIN frame.nodes} |->
                        histNodePosition(nodeOf(name), depth[name],
                                         geometry[depth[name]][name],
                                         layerCount, width)]
            IN  [timestamp |-> frame.timestamp,
                 nodePositions |-> nodePositions,
                 linkPaths |->
                     FoldLeft(LAMBDA acc, link :
                                  addLinkPath(acc, link, nodePositions, link.value),
                              NoPortsUsed, frameLinks(frame)).linkPaths]
    IN  Map(Filter(fs, LAMBDA frame : frame.nodes # <<>>), layoutState)

\* A planner that lays out every frame on its own.
computeLayoutFrameByFrame(fs, width, height, customPositions) ==
    FoldLeft(LAMBDA acc, frame :
                 acc \o planLayout(<<frame>>, width, height, customPositions),
             <<>>, fs)

\* A variant that gives up on the whole batch when a frame has no nodes.
computeLayoutAllOrNone(fs, width, height, customPositions) ==
    IF \E i \in DOMAIN fs : fs[i].nodes = <<>>
    THEN <<>>
    ELSE planLayout(fs, width, height, customPositions)

\* export function computeLayout(frames, width = 800, height = 600,
\*                               customPositions?)
computeLayout(fs, width, height, customPositions) ==
    planLayout(fs, width, height, customPositions)

(***************************************************************************)
(* Drag overrides on the frames.                                           *)
(***************************************************************************)
\* updateNodePosition: the first node of that name in each frame gets the
\* custom position; frames without the node are returned unchanged.
updateNodePosition(fs, nodeName, newX, newY) ==
    Map(fs, LAMBDA frame :
        LET found == {i \in DOMAIN frame.nodes : frame.nodes[i].name = nodeName}
        IN  IF found # {}
            THEN LET nodeIndex == CHOOSE i \in found : \A j \in found : i <= j
                 IN  [frame EXCEPT !.nodes[nodeIndex].customX = newX,
                                   !.nodes[nodeIndex].customY = newY]
            ELSE frame)

\* resetNodePositions: every node loses customX and customY.
resetNodePositions(fs) ==
    Map(fs, LAMBDA frame :
        [frame EXCEPT !.nodes =
            Map(frame.nodes, LAMBDA node :
                [node EXCEPT !.customX = undefined, !.customY = undefined])])

(***************************************************************************)
(* The historical planner as a state machine: the host holds a batch of    *)
(* frames, drags and resets rewrite it, computeLayout plans it.            *)
(***************************************************************************)
\* The frames the batches are built from: no nodes; two or three nodes
\* with no link, a chain (whose second link dangles when C is missing) or
\* two sources into C.
HistFrameMenu ==
    {[nodes |-> <<>>, links |-> <<>>],
     [nodes |-> Map(<<"A", "B">>, Node), links |-> <<>>],
     [nodes |-> Map(<<"A", "B">>, Node), links |-> <<Link("A", "B", 30)>>],
     [nodes |-> Map(<<"A", "B">>, Node),
      links |-> <<Link("A", "B", 1), Link("B", "C", 30)>>],
     [nodes |-> Map(<<"A", "B", "C">>, Node), links |-> <<>>],
     [nodes |-> Map(<<"A", "B", "C">>, Node),
      links |-> <<Link("A", "B", 1), Link("B", "C", 30)>>],
     [nodes |-> Map(<<"A", "B", "C">>, Node),
      links |-> <<Link("A", "C", 1), Link("B", "C", 30)>>]}

\* A batch: frame i carries timestamp i and no tick.
HistBatches ==
    {[i \in DOMAIN b |->
         [timestamp |-> i, tick |-> undefined,
          nodes |-> b[i].nodes, links |-> b[i].links]] :
        b \in UNION {[1 .. k -> HistFrameMenu] : k \in 0 .. MaxFrames}}

NoOverrides == [n \in {} |-> [x |-> 0, y |-> 0]]

SessionsIdle == sessions = <<>>

PortIdle ==
    /\ portHeight = 0
    /\ portsUsed = <<>>

AppIdle ==
    /\ lastMessage = <<>>
    /\ streamEffect = <<>>
    /\ snapshots = <<>>
    /\ currentIndex = 0
    /\ latestFrame = <<>>
    /\ arrived = 0

SocketIdle ==
    /\ sockets = <<>>
    /\ wsRef = 0
    /\ manualDisconnectRef = FALSE
    /\ connectTimeoutRef = 0
    /\ connectTimeouts = {}
    /\ heartbeatIntervalRef = FALSE
    /\ isConnected = FALSE
    /\ connectionStatus = "disconnected"
    /\ wsError = ""
    /\ reconnectTimers = {}
    /\ lastCall = "none"

SortIdle ==
    /\ sortValues = <<>>
    /\ sortCounts = <<>>
    /\ sortListed = <<>>
    /\ sortResult = <<>>

EditIdle ==
    /\ editHeap = <<>>
    /\ editFrames = <<>>
    /\ editHeapBefore = <<>>
    /\ editInput = <<>>
    /\ editCalls = <<>>
    /\ editOriginal = <<>>

AuxIdle == SessionsIdle /\ PortIdle /\ AppIdle /\ SocketIdle /\ SortIdle /\ EditIdle

HistIdle ==
    /\ frames = <<>>
    /\ layoutInput = <<>>
    /\ layoutStates = <<>>
    /\ stored = NoOverrides
    /\ drags = 0

RtIdle ==
    /\ rtFirstTick = undefined
    /\ rtCustomPositions = NoCustomPositions
    /\ rtClock = 0
    /\ rtFrame = <<>>
    /\ rtCache = <<>>
    /\ rtLayout = <<>>
    /\ rtEmitted = [n \in {} |-> 0]
    /\ rtNodeSeenAt = [n \in {} |-> 0]
    /\ rtLinkSeenAt = [k \in {} |-> 0]
    /\ rtGap = [n \in {} |-> 0]

HistInit ==
    /\ engine = "historical"
    /\ frames \in HistBatches
    /\ AuxIdle
    /\ layoutInput = <<>>
    /\ layoutStates = <<>>
    /\ stored = NoOverrides
    /\ drags = 0
    /\ RtIdle

\* computeLayout(frames, width, height) as the diagram component calls it.
ComputeLayout ==
    /\ engine = "historical"
    /\ ~computeLayoutThrows(frames)
    /\ layoutStates' = computeLayout(frames, HistWidth, HistHeight, NoCustomPositions)
    /\ layoutInput' = frames
    /\ UNCHANGED <<engine, frames, stored, drags>>
    /\ UNCHANGED rtVars
    /\ UNCHANGED auxVars

\* A drag ends: updateNodePosition(frames, nodeName, x, y).
UpdateNodePosition(nodeName, pos) ==
    /\ engine = "historical"
    /\ drags < MaxDrags
    /\ frames' = updateNodePosition(frames, nodeName, pos.x, pos.y)
    /\ stored' = [n \in DOMAIN stored \cup {nodeName} |->
                     IF n = nodeName THEN pos ELSE stored[n]]
    /\ drags' = drags + 1
    /\ UNCHANGED <<engine, layoutInput, layoutStates>>
    /\ UNCHANGED rtVars
    /\ UNCHANGED auxVars

\* Reset: resetNodePositions(frames).
ResetNodePositions ==
    /\ engine = "historical"
    /\ stored # NoOverrides
    /\ frames' = resetNodePositions(frames)
    /\ stored' = NoOverrides
    /\ UNCHANGED <<engine, layoutInput, layoutStates, drags>>
    /\ UNCHANGED rtVars
    /\ UNCHANGED auxVars

HistNext ==
    \/ ComputeLayout
    \/ \E nodeName \in Nodes, pos \in DragPositions :
           UpdateNodePosition(nodeName, pos)
    \/ ResetNodePositions

HistSpec == HistInit /\ [][HistNext]_vars

(***************************************************************************)
(* A two-frame batch over A, B, C with the links A -> B and B -> C, whose  *)
(* values grow from the first frame to the second.                         *)
(***************************************************************************)
ScenarioValues == {5, 10, 15, 20}

ChainFrame(t, ab, bc) ==
    [timestamp |-> t, tick |-> undefined,
     nodes |-> Map(<<"A", "B", "C">>, Node),
     links |-> <<Link("A", "B", ab), Link("B", "C", bc)>>]

ScenarioInit ==
    /\ engine = "historical"
    /\ \E ab0, ab1, bc0, bc1 \in ScenarioValues :
           /\ ab0 < ab1
           /\ bc0 < bc1
           /\ frames = <<ChainFrame(0, ab0, bc0), ChainFrame(1, ab1, bc1)>>
    /\ layoutInput = <<>>
    /\ layoutStates = <<>>
    /\ stored = NoOverrides
    /\ drags = 0
    /\ RtIdle
    /\ AuxIdle

ScenarioSpec == ScenarioInit /\ [][HistNext]_vars

(***************************************************************************)
(* computeRealtimeLayout.                                                  *)
(*                                                                         *)
(* A real-time node is [id, name] with "" for a missing field; a smoothed  *)
(* link value is the exact decimal num / 10^exp.  A value that may be      *)
(* null (the cache, the previous state) is <<>> or a one-element sequence. *)
(***************************************************************************)
\* Layout configuration of computeRealtimeLayout.
RtMarginTop == 20
RtMarginBottom == 20
RtMarginLeft == 30
RtMarginRight == 30
RtNodeWidth == 20
RtNodePadding == 10
RtMinNodeHeight == 15
RtMaxNodeHeightCap == 100
StaleTicks == 5

RECURSIVE Pow10(_)
Pow10(k) == IF k = 0 THEN 1 ELSE 10 * Pow10(k - 1)

RECURSIVE Normalize(_)
\* The same decimal without trailing zeros.
Normalize(v) ==
    IF v.exp > 0 /\ v.num % 10 = 0
    THEN Normalize([num |-> v.num \div 10, exp |-> v.exp - 1])
    ELSE v

Decimal(n) == [num |-> n, exp |-> 0]

\* A variant that adds the new share without scaling the old value down.
smoothValueAccumulating(oldValue, value) ==
    Normalize([num |-> 10 * oldValue.num + 3 * value * Pow10(oldValue.exp),
               exp |-> oldValue.exp + 1])

\* oldValue * (1 - 0.3) + value * 0.3
smoothValue(oldValue, value) ==
    Normalize([num |-> 7 * oldValue.num + 3 * value * Pow10(oldValue.exp),
               exp |-> oldValue.exp + 1])

\* smoothingCache || { nodePositions: new Map(), linkValues: new Map(), lastTick: 0 }
EmptyCache ==
    [nodePositions |-> [n \in {} |-> [y |-> 0, height |-> 0, yIndex |-> 0, lastSeen |-> 0]],
     linkValues |-> [k \in {} |-> Decimal(0)],
     lastTick |-> 0]

\* A variant with one module-level cache: a call that is given no cache
\* picks up the cache of a session that has one.
cacheOrNewShared(smoothingCache) ==
    IF smoothingCache # <<>> THEN smoothingCache[1]
    ELSE IF \E k \in DOMAIN sessions : sessions[k].cache # <<>>
         THEN sessions[CHOOSE k \in DOMAIN sessions : sessions[k].cache # <<>>].cache[1]
         ELSE EmptyCache

cacheOrNew(smoothingCache) ==
    IF smoothingCache = <<>> THEN EmptyCache ELSE smoothingCache[1]

\* currentTick = newFrame.tick || new Date(newFrame.timestamp).getTime() / 1000
\* (timestamps are kept as seconds since the epoch; undefined and 0 are falsy)
currentTickOf(newFrame) ==
    IF newFrame.tick # undefined /\ newFrame.tick # 0
    THEN newFrame.tick
    ELSE newFrame.timestamp

\* normalizedNodes: name = node.id || node.name
normalizedNodes(newFrame) ==
    Map(newFrame.nodes, LAMBDA node : IF node.id # "" THEN node.id ELSE node.name)

\* validLinks: links whose two ends are nodes of the frame.
rtValidLinks(newFrame) ==
    LET nodeNames == Range(normalizedNodes(newFrame))
    IN  Filter(newFrame.links,
               LAMBDA link : link.source \in nodeNames /\ link.target \in nodeNames)

\* Extend a map (Map.prototype.set).
MapSet(m, key, value) ==
    [k \in DOMAIN m \cup {key} |-> IF k = key THEN value ELSE m[k]]

\* Remove keys (Map.prototype.delete).
MapDelete(m, keys) == [k \in DOMAIN m \ keys |-> m[k]]

\* The layer inferred for a node that is not in the cache.
\* allLayers: layers of the nodes of this frame handled so far.
inferLayer(name, links, cachedPositions, allLayers) ==
    LET incomingLinks == Filter(links, LAMBDA l : l.target = name)
        outgoingLinks == Filter(links, LAMBDA l : l.source = name)
        \* cache.nodePositions.get(name)?.yIndex || 0, kept when > 0
        sourceLayers ==
            {cachedPositions[incomingLinks[i].source].yIndex :
                i \in {j \in DOMAIN incomingLinks :
                          /\ incomingLinks[j].source \in DOMAIN cachedPositions
                          /\ cachedPositions[incomingLinks[j].source].yIndex > 0}}
    IN  IF Len(incomingLinks) = 0 /\ Len(outgoingLinks) > 0 THEN 0
        ELSE IF Len(outgoingLinks) = 0 /\ Len(incomingLinks) > 0
             THEN MaxSet(allLayers \cup {0}) + 1
        ELSE IF Len(incomingLinks) > 0 /\ Len(outgoingLinks) > 0
             THEN IF sourceLayers # {} THEN MaxSet(sourceLayers) + 1 ELSE 1
        ELSE 0

\* A variant that infers the layer again on every call.
registerNodeReinferring(acc, name, links, currentTick) ==
    LET inferred == inferLayer(name, links, acc.positions, acc.allLayers)
        positions1 ==
            IF name \in DOMAIN acc.positions
            THEN [acc.positions EXCEPT ![name].yIndex = inferred]
            ELSE MapSet(acc.positions, name,
                        [y |-> 0, height |-> 0, yIndex |-> inferred,
                         lastSeen |-> currentTick])
        positions2 == [positions1 EXCEPT ![name].lastSeen = currentTick]
        layer == positions2[name].yIndex
    IN  [positions |-> positions2,
         allLayers |-> acc.allLayers \cup {layer},
         byLayer |-> IF layer \in DOMAIN acc.byLayer
                     THEN [acc.byLayer EXCEPT ![layer] = Append(@, name)]
                     ELSE MapSet(acc.byLayer, layer, <<name>>)]

\* STEP 1, one node of normalizedNodes.forEach.
\* acc = [positions (cache.nodePositions), allLayers, byLayer (nodesByLayer)].
registerNode(acc, name, links, currentTick) ==
    LET positions1 ==
            IF name \in DOMAIN acc.positions THEN acc.positions
            ELSE MapSet(acc.positions, name,
                        [y |-> 0, height |-> 0,
                         yIndex |-> inferLayer(name, links, acc.positions, acc.allLayers),
                         lastSeen |-> currentTick])
        positions2 == [positions1 EXCEPT ![name].lastSeen = currentTick]
        layer == positions2[name].yIndex
    IN  [positions |-> positions2,
         allLayers |-> acc.allLayers \cup {layer},
         byLayer |-> IF layer \in DOMAIN acc.byLayer
                     THEN [acc.byLayer EXCEPT ![layer] = Append(@, name)]
                     ELSE MapSet(acc.byLayer, layer, <<name>>)]

\* STEP 2: nodeValues of this frame (get(name) || 0).
rtNodeValues(links) ==
    FoldLeft(LAMBDA acc, link :
                 LET a == [acc EXCEPT ![link.source] = @ + link.value]
                 IN  [a EXCEPT ![link.target] = @ + link.value],
             [n \in Nodes |-> 0], links)

\* A variant whose first estimate of a link is 0 instead of its raw value.
smoothLinkFromZero(linkValues, link) ==
    LET linkKey == <<link.source, link.target>>
        oldValue == IF linkKey \in DOMAIN linkValues
                    THEN linkValues[linkKey]
                    ELSE Decimal(0)
    IN  MapSet(linkValues, linkKey, smoothValue(oldValue, link.value))

\* STEP 2: exponential smoothing of one link into cache.linkValues.
\* oldValue = cache.linkValues.get(linkKey) || link.value
smoothLink(linkValues, link) ==
    LET linkKey == <<link.source, link.target>>
        oldValue == IF linkKey \in DOMAIN linkValues /\ linkValues[linkKey].num # 0
                    THEN linkValues[linkKey]
                    ELSE Decimal(link.value)
    IN  MapSet(linkValues, linkKey, smoothValue(oldValue, link.value))

\* maxNodeHeight = Math.min(100, Math.floor(usableHeight / 5))
rtMaxNodeHeight(height) ==
    Min2(RtMaxNodeHeightCap, (height - RtMarginTop - RtMarginBottom) \div 5)

\* A variant that sorts a layer by descending cached y.
rtLayerDescending(positions, layerNodes, values, height) ==
    LET usableHeight == height - RtMarginTop - RtMarginBottom
        nodes == ArraySort(LAMBDA a, b : positions[b].y - positions[a].y,
                           layerNodes)
        valueOr1(name) == IF values[name] = 0 THEN 1 ELSE values[name]
        layerTotalValue == SumSeq(Map(nodes, valueOr1))
        availableHeight == usableHeight - (Len(nodes) - 1) * RtNodePadding
        targetHeight(name) ==
            Max2(RtMinNodeHeight,
                 Min2(rtMaxNodeHeight(height),
                      (Max2(1, valueOr1(name)) * availableHeight)
                          \div Max2(1, layerTotalValue)))
        totalNodesHeight == SumSeq(Map(nodes, targetHeight))
                                + (Len(nodes) - 1) * RtNodePadding
        verticalOffset2 == Max2(0, usableHeight - totalNodesHeight)
        \* acc = [positions, y2]; y2 is the running y, doubled
        place(acc, name) ==
            LET nodeInfo == acc.positions[name]
                oldHeight == IF nodeInfo.height # 0 THEN nodeInfo.height
                             ELSE targetHeight(name)
                newHeight == (7 * oldHeight + 3 * targetHeight(name) + 5) \div 10
                oldY2 == IF nodeInfo.y # 0 THEN 2 * nodeInfo.y ELSE acc.y2
                newY == (7 * oldY2 + 3 * acc.y2 + 10) \div 20
            IN  [positions |-> [acc.positions EXCEPT ![name].y = newY,
                                                      ![name].height = newHeight],
                 y2 |-> acc.y2 + 2 * (newHeight + RtNodePadding)]
    IN  FoldLeft(place,
                 [positions |-> positions, y2 |-> 2 * RtMarginTop + verticalOffset2],
                 nodes).positions

\* STEP 3, one layer: sort by cached y, then smooth height and y of each
\* node towards its target.  Returns the updated cache.nodePositions.
rtLayer(positions, layerNodes, values, height) ==
    LET usableHeight == height - RtMarginTop - RtMarginBottom
        nodes == ArraySort(LAMBDA a, b : positions[a].y - positions[b].y,
                           layerNodes)
        valueOr1(name) == IF values[name] = 0 THEN 1 ELSE values[name]
        layerTotalValue == SumSeq(Map(nodes, valueOr1))
        availableHeight == usableHeight - (Len(nodes) - 1) * RtNodePadding
        targetHeight(name) ==
            Max2(RtMinNodeHeight,
                 Min2(rtMaxNodeHeight(height),
                      (Max2(1, valueOr1(name)) * availableHeight)
                          \div Max2(1, layerTotalValue)))
        totalNodesHeight == SumSeq(Map(nodes, targetHeight))
                                + (Len(nodes) - 1) * RtNodePadding
        verticalOffset2 == Max2(0, usableHeight - totalNodesHeight)
        \* acc = [positions, y2]; y2 is the running y, doubled
        place(acc, name) ==
            LET nodeInfo == acc.positions[name]
                oldHeight == IF nodeInfo.height # 0 THEN nodeInfo.height
                             ELSE targetHeight(name)
                newHeight == (7 * oldHeight + 3 * targetHeight(name) + 5) \div 10
                oldY2 == IF nodeInfo.y # 0 THEN 2 * nodeInfo.y ELSE acc.y2
                newY == (7 * oldY2 + 3 * acc.y2 + 10) \div 20
            IN  [positions |-> [acc.positions EXCEPT ![name].y = newY,
                                                      ![name].height = newHeight],
                 y2 |-> acc.y2 + 2 * (newHeight + RtNodePadding)]
    IN  FoldLeft(place,
                 [positions |-> positions, y2 |-> 2 * RtMarginTop + verticalOffset2],
                 nodes).positions

\* xPositions.get(layer) || margins.left, doubled.
rtXPosition2(layer, layerCount, width) ==
    LET x2 == 2 * RtMarginLeft
                + (2 * layer * (width - RtMarginLeft - RtMarginRight))
                    \div Max2(1, layerCount - 1)
    IN  IF layer < layerCount /\ x2 # 0 THEN x2 ELSE 2 * RtMarginLeft

\* STEP 4: nodePositions[node.name].
rtNodePosition(nodeInfo, layerCount, width) ==
    [x |-> rtXPosition2(nodeInfo.yIndex, layerCount, width),
     y |-> 2 * nodeInfo.y,
     height |-> nodeInfo.height,
     width |-> RtNodeWidth,
     layer |-> nodeInfo.yIndex,
     isDragged |-> FALSE]

\* Stale node cleanup: names deleted from cache.nodePositions.
staleNodes(positions, currentTick, visibleNodeNames) ==
    IF currentTick > StaleTicks
    THEN {name \in DOMAIN positions :
             /\ positions[name].lastSeen < currentTick - StaleTicks
             /\ name \notin visibleNodeNames}
    ELSE {}

\* A variant whose cleanup starts one tick early.
staleLinksFromTick5(linkValues, currentTick, links) ==
    IF currentTick >= StaleTicks
    THEN DOMAIN linkValues \ {<<links[i].source, links[i].target>> : i \in DOMAIN links}
    ELSE {}

\* Stale link cleanup: keys deleted from cache.linkValues.
staleLinks(linkValues, currentTick, links) ==
    IF currentTick > StaleTicks
    THEN DOMAIN linkValues \ {<<links[i].source, links[i].target>> : i \in DOMAIN links}
    ELSE {}

\* STEPS 3 to 6 on the cache after the nodes are registered: geometry,
\* LayoutState, and the cleaned-up cache.
rtFinish(newFrame, step1, links, linkValues, currentTick, width, height) ==
    LET names == normalizedNodes(newFrame)
        values == rtNodeValues(links)
        layerCount == IF step1.allLayers = {} THEN 0
                      ELSE MaxSet(step1.allLayers) + 1
        \* nodesByLayer.forEach: the layers do not read one another
        sized == FoldLeft(LAMBDA acc, layer :
                              IF layer \in DOMAIN step1.byLayer
                              THEN rtLayer(acc, step1.byLayer[layer], values, height)
                              ELSE acc,
                          step1.positions, [i \in 1 .. layerCount |-> i - 1])
    IN  With(sized, LAMBDA positions :
        With([name \in Range(names) |->
                 rtNodePosition(positions[name], layerCount, width)],
             LAMBDA nodePositions :
        [layoutState |->
             [timestamp |-> newFrame.timestamp,
              nodePositions |-> nodePositions,
              linkPaths |->
                  FoldLeft(LAMBDA acc, link :
                               LET linkKey == <<link.source, link.target>>
                               IN  addLinkPath(acc, link, nodePositions,
                                       IF linkValues[linkKey].num # 0
                                       THEN linkValues[linkKey]
                                       ELSE Decimal(link.value)),
                           NoPortsUsed, links).linkPaths],
         smoothingCache |->
             [nodePositions |->
                  MapDelete(positions, staleNodes(positions, currentTick, Range(names))),
              linkValues |->
                  MapDelete(linkValues, staleLinks(linkValues, currentTick, links)),
              lastTick |-> currentTick]]))

\* The function declares five parameters.
computeRealtimeLayout(newFrame, previousState, smoothingCache, width, height) ==
    LET cache == cacheOrNew(smoothingCache)
        currentTick == currentTickOf(newFrame)
    IN  With(rtValidLinks(newFrame), LAMBDA links :
        With(FoldLeft(LAMBDA acc, name : registerNode(acc, name, links, currentTick),
                      [positions |-> cache.nodePositions,
                       allLayers |-> {},
                       byLayer |-> [l \in {} |-> <<>>]],
                      normalizedNodes(newFrame)),
             LAMBDA step1 :
        With(FoldLeft(smoothLink, cache.linkValues, links),
             LAMBDA linkValues :
        rtFinish(newFrame, step1, links, linkValues, currentTick, width, height))))

(***************************************************************************)
(* The real-time stabilizer as a state machine: a producer streams frames, *)
(* the diagram calls computeRealtimeLayout on each and keeps the cache.    *)
(***************************************************************************)
\* Canvas of the real-time diagram (the defaults of the function).
RtWidth == 800
RtHeight == 600

\* A streamed node: C is sent under "id", the others under "name".
RtNode(name) == IF name = "C" THEN [id |-> name, name |-> ""]
                ELSE [id |-> "", name |-> name]

\* What the producer can send in one frame.
RtFrameMenu ==
    {[nodes |-> Map(<<"A", "B", "C">>, RtNode),
      links |-> <<Link("A", "B", 1), Link("B", "C", 3)>>],
     [nodes |-> Map(<<"A", "B">>, RtNode),
      links |-> <<Link("A", "B", 3), Link("B", "C", 1)>>],
     [nodes |-> Map(<<"A", "C">>, RtNode),
      links |-> <<Link("A", "C", 1)>>]}

\* Overrides the diagram may hold from a drag.
RtCustomChoices ==
    {NoCustomPositions, [n \in {"B"} |-> [x |-> 7, y |-> 9]]}

RtInit ==
    /\ engine = "realtime"
    /\ HistIdle
    /\ AuxIdle
    /\ rtFirstTick \in {undefined, 0, 1}
    /\ rtCustomPositions \in RtCustomChoices
    /\ rtClock = 0
    /\ rtFrame = <<>>
    /\ rtCache = <<>>
    /\ rtLayout = <<>>
    /\ rtEmitted = [n \in {} |-> 0]
    /\ rtNodeSeenAt = [n \in {} |-> 0]
    /\ rtLinkSeenAt = [k \in {} |-> 0]
    /\ rtGap = [n \in {} |-> 0]

\* Keys "source->target" of a list of links.
linkKeys(links) == {<<links[i].source, links[i].target>> : i \in DOMAIN links}

\* A frame arrives and the diagram lays it out:
\* computeRealtimeLayout(latestFrame, currentLayoutState,
\*     smoothingCacheRef.current, width, height, customPositions),
\* the sixth argument having no parameter to land in.
Receive(content) ==
    /\ \E newFrame \in {[timestamp |-> RtEpoch + rtClock,
                         tick |-> IF rtFirstTick = undefined THEN undefined
                                  ELSE rtFirstTick + rtClock,
                         nodes |-> content.nodes,
                         links |-> content.links]} :
       \E result \in {computeRealtimeLayout(newFrame, rtLayout, rtCache,
                                            RtWidth, RtHeight)} :
       LET sent == Range(normalizedNodes(newFrame))
           sentLinks == linkKeys(rtValidLinks(newFrame))
       IN  /\ rtFrame' = <<newFrame>>
           /\ rtCache' = <<result.smoothingCache>>
           /\ rtLayout' = <<result.layoutState>>
           /\ rtClock' = rtClock + 1
           /\ rtEmitted' =
                  [n \in DOMAIN rtEmitted \cup sent |->
                      IF n \in sent THEN result.layoutState.nodePositions[n].layer
                      ELSE rtEmitted[n]]
           /\ rtNodeSeenAt' =
                  [n \in DOMAIN rtNodeSeenAt \cup sent |->
                      IF n \in sent THEN rtClock + 1 ELSE rtNodeSeenAt[n]]
           /\ rtLinkSeenAt' =
                  [k \in DOMAIN rtLinkSeenAt \cup sentLinks |->
                      IF k \in sentLinks THEN rtClock + 1 ELSE rtLinkSeenAt[k]]
           /\ rtGap' =
                  [n \in sent |->
                      IF n \in DOMAIN rtNodeSeenAt
                      THEN rtClock + 1 - rtNodeSeenAt[n] ELSE 0]
    /\ UNCHANGED <<engine, rtFirstTick, rtCustomPositions>>
    /\ UNCHANGED histVars
    /\ UNCHANGED auxVars

\* The producer sends any frame of its menu.
ReceiveFrame(content) ==
    /\ engine = "realtime"
    /\ rtClock < MaxCalls
    /\ Receive(content)

RtNext == \E content \in RtFrameMenu : ReceiveFrame(content)

RtSpec == RtInit /\ [][RtNext]_vars

(***************************************************************************)
(* A changing node set: the producer sends frames whose nodes come and go  *)
(* within one layer, with and without links that change their sizes.       *)
(***************************************************************************)
OrderFrameMenu ==
    {[nodes |-> Map(<<"A", "B", "C">>, RtNode), links |-> <<>>],
     [nodes |-> Map(<<"A", "B">>, RtNode), links |-> <<>>],
     [nodes |-> Map(<<"B", "C">>, RtNode), links |-> <<>>],
     [nodes |-> Map(<<"C", "A">>, RtNode), links |-> <<>>],
     [nodes |-> Map(<<"A", "B", "C">>, RtNode),
      links |-> <<Link("A", "B", 30)>>],
     [nodes |-> Map(<<"C", "B", "A">>, RtNode),
      links |-> <<Link("B", "C", 30), Link("A", "C", 1)>>]}

OrderInit ==
    /\ engine = "order"
    /\ HistIdle
    /\ AuxIdle
    /\ rtFirstTick \in {undefined, 0, 1}
    /\ rtCustomPositions = NoCustomPositions
    /\ rtClock = 0
    /\ rtFrame = <<>>
    /\ rtCache = <<>>
    /\ rtLayout = <<>>
    /\ rtEmitted = [n \in {} |-> 0]
    /\ rtNodeSeenAt = [n \in {} |-> 0]
    /\ rtLinkSeenAt = [k \in {} |-> 0]
    /\ rtGap = [n \in {} |-> 0]

OrderReceive(content) ==
    /\ engine = "order"
    /\ rtClock < MaxOrderCalls
    /\ Receive(content)

OrderNext == \E content \in OrderFrameMenu : OrderReceive(content)

OrderSpec == OrderInit /\ [][OrderNext]_vars

(***************************************************************************)
(* Link values that include 0, and frames that list one link twice.        *)
(***************************************************************************)
SmoothFrameMenu ==
    {[nodes |-> Map(<<"A", "B">>, RtNode), links |-> <<Link("A", "B", 0)>>],
     [nodes |-> Map(<<"A", "B">>, RtNode), links |-> <<Link("A", "B", 10)>>],
     [nodes |-> Map(<<"A", "B">>, RtNode),
      links |-> <<Link("A", "B", 10), Link("A", "B", 0)>>],
     [nodes |-> Map(<<"A", "B">>, RtNode),
      links |-> <<Link("A", "B", 3), Link("A", "B", 3)>>]}

SmoothInit ==
    /\ engine = "smooth"
    /\ HistIdle
    /\ AuxIdle
    /\ rtFirstTick \in {undefined, 0, 1}
    /\ rtCustomPositions = NoCustomPositions
    /\ rtClock = 0
    /\ rtFrame = <<>>
    /\ rtCache = <<>>
    /\ rtLayout = <<>>
    /\ rtEmitted = [n \in {} |-> 0]
    /\ rtNodeSeenAt = [n \in {} |-> 0]
    /\ rtLinkSeenAt = [k \in {} |-> 0]
    /\ rtGap = [n \in {} |-> 0]

SmoothReceive(content) ==
    /\ engine = "smooth"
    /\ rtClock < MaxSmoothCalls
    /\ Receive(content)

SmoothNext == \E content \in SmoothFrameMenu : SmoothReceive(content)

SmoothSpec == SmoothInit /\ [][SmoothNext]_vars

(***************************************************************************)
(* A steady stream: the producer sends one link A -> B with the same value *)
(* in every frame, into a session that starts with no cache.               *)
(***************************************************************************)
SteadyValues == {1, 3, 10, 30, 250}

SteadyFrame(v) ==
    [nodes |-> Map(<<"A", "B">>, RtNode), links |-> <<Link("A", "B", v)>>]

SteadyInit ==
    /\ engine = "steady"
    /\ HistIdle
    /\ AuxIdle
    /\ rtFirstTick \in {undefined, 0, 1}
    /\ rtCustomPositions = NoCustomPositions
    /\ rtClock = 0
    /\ rtFrame = <<>>
    /\ rtCache = <<>>
    /\ rtLayout = <<>>
    /\ rtEmitted = [n \in {} |-> 0]
    /\ rtNodeSeenAt = [n \in {} |-> 0]
    /\ rtLinkSeenAt = [k \in {} |-> 0]
    /\ rtGap = [n \in {} |-> 0]

\* The first frame of the stream fixes the value.
SteadyFirst(v) ==
    /\ engine = "steady"
    /\ rtFrame = <<>>
    /\ Receive(SteadyFrame(v))

\* Every later frame repeats it.
SteadyAgain ==
    /\ engine = "steady"
    /\ rtFrame # <<>>
    /\ rtClock < MaxSteadyCalls
    /\ Receive([nodes |-> rtFrame[1].nodes, links |-> rtFrame[1].links])

SteadyNext == (\E v \in SteadyValues : SteadyFirst(v)) \/ SteadyAgain

SteadySpec == SteadyInit /\ [][SteadyNext]_vars

(***************************************************************************)
(* Two real-time diagrams, each with its own cache, fed in any interleaving.*)
(***************************************************************************)
SessionIds == {1, 2}

NewSession == [frames |-> <<>>, cache |-> <<>>, states |-> <<>>]

\* One call of a session: its k-th frame carries tick k.
SessionCall(session, content) ==
    LET newFrame == [timestamp |-> RtEpoch + Len(session.frames),
                     tick |-> Len(session.frames) + 1,
                     nodes |-> content.nodes,
                     links |-> content.links]
        previousState == IF session.states = <<>> THEN <<>>
                         ELSE <<session.states[Len(session.states)]>>
    IN  With(computeRealtimeLayout(newFrame, previousState, session.cache,
                                   RtWidth, RtHeight),
             LAMBDA result :
                 [frames |-> Append(session.frames, content),
                  cache |-> <<result.smoothingCache>>,
                  states |-> Append(session.states, result.layoutState)])

SessionsInit ==
    /\ engine = "sessions"
    /\ HistIdle
    /\ RtIdle
    /\ sessions = [k \in SessionIds |-> NewSession]
    /\ PortIdle
    /\ AppIdle
    /\ SocketIdle
    /\ SortIdle
    /\ EditIdle

SessionReceive(k, content) ==
    /\ engine = "sessions"
    /\ Len(sessions[k].frames) < MaxSessionCalls
    /\ sessions' = [sessions EXCEPT ![k] = SessionCall(sessions[k], content)]
    /\ UNCHANGED engine
    /\ UNCHANGED histVars
    /\ UNCHANGED rtVars
    /\ UNCHANGED portVars
    /\ UNCHANGED appVars
    /\ UNCHANGED socketVars
    /\ UNCHANGED sortVars
    /\ UNCHANGED editVars

SessionsNext ==
    \E k \in SessionIds : \E content \in RtFrameMenu : SessionReceive(k, content)

SessionsSpec == SessionsInit /\ [][SessionsNext]_vars

(***************************************************************************)
(* getConnectionPoint on one end of one node: the links of a frame that    *)
(* touch the node claim their ports one after the other.                   *)
(***************************************************************************)
\* Node heights from the real-time minimum up to a height with six ports.
PortHeights == RtMinNodeHeight .. 60

PortInit ==
    /\ engine = "ports"
    /\ HistIdle
    /\ RtIdle
    /\ SessionsIdle
    /\ AppIdle
    /\ SocketIdle
    /\ SortIdle
    /\ EditIdle
    /\ portHeight \in PortHeights
    /\ portsUsed = <<>>

\* usedPorts.push(portIndex) for the next link of the frame.
AttachLink ==
    /\ engine = "ports"
    /\ Len(portsUsed) < MaxLinksPerNode
    /\ portsUsed' = Append(portsUsed, choosePort(portHeight, portsUsed))
    /\ UNCHANGED <<engine, portHeight>>
    /\ UNCHANGED histVars
    /\ UNCHANGED rtVars
    /\ UNCHANGED sessionVars
    /\ UNCHANGED appVars
    /\ UNCHANGED socketVars
    /\ UNCHANGED sortVars
    /\ UNCHANGED editVars

PortNext == AttachLink

PortSpec == PortInit /\ [][PortNext]_vars

(***************************************************************************)
(* The stream path of the App in real-time mode: the socket provider keeps *)
(* the last data frame, the WebSocketStream component forwards it to the   *)
(* App's handleStreamData in an effect, and the App appends it to          *)
(* snapshots.  A frame is named by its arrival number.                     *)
(***************************************************************************)
\* "Keep a reasonable number of snapshots (latest 100)".
MaxSnapshots == 100

\* arr.slice(-n)
SliceLast(arr, n) ==
    IF Len(arr) <= n THEN arr ELSE SubSeq(arr, Len(arr) - n + 1, Len(arr))

\* What the socket can deliver: info and heartbeat messages, data without a
\* timestamp, and data frames.
MessageKinds == {"info", "heartbeat", "malformed", "frame"}

\* The dependency array [lastMessage, onStreamData] of the forwarding
\* effect.  onStreamData is handleStreamData, which useCallback re-creates
\* exactly when snapshots.length changes, so its identity is that length.
StreamEffectDeps == <<lastMessage, Len(snapshots)>>

AppInit ==
    /\ engine = "stream"
    /\ HistIdle
    /\ RtIdle
    /\ SessionsIdle
    /\ PortIdle
    /\ SocketIdle
    /\ SortIdle
    /\ EditIdle
    /\ lastMessage = <<>>
    /\ streamEffect = <<<<>>, 0>>
    /\ snapshots = <<>>
    /\ currentIndex = 0
    /\ latestFrame = <<>>
    /\ arrived = 0

\* ws.onmessage of the provider: a data frame becomes lastMessage, anything
\* else is dropped.
OnMessage(kind) ==
    /\ engine = "stream"
    /\ arrived < MaxMessages
    /\ kind = "frame"
    /\ arrived' = arrived + 1
    /\ lastMessage' = <<arrived + 1>>
    /\ UNCHANGED <<streamEffect, snapshots, currentIndex, latestFrame>>

\* handleStreamData(data), as created by the render that saw the present
\* snapshots.
handleStreamData(data) ==
    /\ latestFrame' = <<data>>
    /\ snapshots' = SliceLast(Append(snapshots, data), MaxSnapshots)
    /\ currentIndex' = Len(snapshots)

\* The forwarding effect of WebSocketStream: it runs after a render in which
\* lastMessage or onStreamData differs from the last run.
ForwardMessage ==
    /\ engine = "stream"
    /\ streamEffect # StreamEffectDeps
    /\ streamEffect' = StreamEffectDeps
    /\ IF lastMessage # <<>>
       THEN handleStreamData(lastMessage[1])
       ELSE UNCHANGED <<snapshots, currentIndex, latestFrame>>
    /\ UNCHANGED <<lastMessage, arrived>>

AppNext ==
    \/ /\ \E kind \in MessageKinds : OnMessage(kind)
       /\ UNCHANGED <<engine, histVars, rtVars, sessionVars, portVars, socketVars, sortVars, editVars>>
    \/ /\ ForwardMessage
       /\ UNCHANGED <<engine, histVars, rtVars, sessionVars, portVars, socketVars, sortVars, editVars>>

AppSpec == AppInit /\ [][AppNext]_vars

(***************************************************************************)
(* PersistentWebSocketProvider: connect, disconnect, the socket's          *)
(* handlers, the connection timeout and the reconnect timer.  A socket is  *)
(* a record in `sockets`; its `origin` is 0 when the user's connect(url)   *)
(* created it and otherwise the socket whose close scheduled the timer     *)
(* that created it; `closedBy` tells whether ws.close() or the network     *)
(* closed it.  A malformed URL (the catch at 242-246) is not modelled.     *)
(***************************************************************************)
Urls == {"ws://localhost:8082", "ws://other:9000"}

\* The refs and state of the provider as one record.
Provider ==
    [sockets |-> sockets, wsRef |-> wsRef,
     manualDisconnectRef |-> manualDisconnectRef,
     connectTimeoutRef |-> connectTimeoutRef,
     connectTimeouts |-> connectTimeouts,
     heartbeatIntervalRef |-> heartbeatIntervalRef,
     isConnected |-> isConnected, connectionStatus |-> connectionStatus,
     wsError |-> wsError]

ProviderBecomes(p) ==
    /\ sockets' = p.sockets
    /\ wsRef' = p.wsRef
    /\ manualDisconnectRef' = p.manualDisconnectRef
    /\ connectTimeoutRef' = p.connectTimeoutRef
    /\ connectTimeouts' = p.connectTimeouts
    /\ heartbeatIntervalRef' = p.heartbeatIntervalRef
    /\ isConnected' = p.isConnected
    /\ connectionStatus' = p.connectionStatus
    /\ wsError' = p.wsError

cleanupTimers(p) ==
    [p EXCEPT !.connectTimeouts = @ \ {p.connectTimeoutRef},
              !.connectTimeoutRef = 0,
              !.heartbeatIntervalRef = FALSE]

\* The handlers are removed before ws.close(), so the close is silent.
closeSocket(ws) ==
    [ws EXCEPT !.attached = FALSE,
               !.readyState = "closed",
               !.closedBy = IF ws.readyState = "closed" THEN @ ELSE "disconnect"]

\* disconnect that leaves manualDisconnectRef as it is.
disconnectSilently(p) ==
    LET cleaned == cleanupTimers(p)
        closed ==
            IF cleaned.wsRef # 0
            THEN [cleaned EXCEPT
                      !.sockets[cleaned.wsRef] = closeSocket(@),
                      !.wsRef = 0]
            ELSE cleaned
    IN  [closed EXCEPT !.isConnected = FALSE,
                       !.connectionStatus = "disconnected",
                       !.wsError = ""]

disconnect(p) ==
    LET cleaned == cleanupTimers([p EXCEPT !.manualDisconnectRef = TRUE])
        closed ==
            IF cleaned.wsRef # 0
            THEN [cleaned EXCEPT
                      !.sockets[cleaned.wsRef] = closeSocket(@),
                      !.wsRef = 0]
            ELSE cleaned
    IN  [closed EXCEPT !.isConnected = FALSE,
                       !.connectionStatus = "disconnected",
                       !.wsError = ""]

connect(p, url, origin) ==
    LET free == IF p.wsRef # 0 THEN disconnect(p) ELSE p
        ws == Len(free.sockets) + 1
    IN  [free EXCEPT
            !.manualDisconnectRef = FALSE,
            !.connectionStatus = "connecting",
            !.wsError = "",
            !.sockets = Append(@, [url |-> url, readyState |-> "connecting",
                                   attached |-> TRUE, origin |-> origin,
                                   closedBy |-> "none"]),
            !.wsRef = ws,
            !.connectTimeoutRef = ws,
            !.connectTimeouts = @ \cup {ws}]

UserConnects == Cardinality({k \in DOMAIN sockets : sockets[k].origin = 0})

RemoteCloses ==
    Cardinality({k \in DOMAIN sockets : sockets[k].closedBy = "network"})

SocketInit ==
    /\ engine = "socket"
    /\ HistIdle
    /\ RtIdle
    /\ SessionsIdle
    /\ PortIdle
    /\ AppIdle
    /\ SocketIdle
    /\ SortIdle
    /\ EditIdle

\* The user presses Connect with a URL.
UserConnect(url) ==
    /\ UserConnects < MaxUserConnects
    /\ ProviderBecomes(connect(Provider, url, 0))
    /\ lastCall' = "connect"
    /\ UNCHANGED reconnectTimers

\* The user presses Disconnect.
UserDisconnect ==
    /\ ProviderBecomes(disconnect(Provider))
    /\ lastCall' = "disconnect"
    /\ UNCHANGED reconnectTimers

\* ws.onopen
SocketOpens(ws) ==
    /\ sockets[ws].readyState = "connecting"
    /\ LET opened == [Provider EXCEPT !.sockets[ws].readyState = "open"]
       IN  IF sockets[ws].attached
           THEN ProviderBecomes(
                    [opened EXCEPT
                        !.connectTimeouts = @ \ {opened.connectTimeoutRef},
                        !.connectTimeoutRef = 0,
                        !.isConnected = TRUE,
                        !.connectionStatus = "connected",
                        !.wsError = "",
                        !.heartbeatIntervalRef = TRUE])
           ELSE ProviderBecomes(opened)
    /\ UNCHANGED <<reconnectTimers, lastCall>>

\* ws.onerror
SocketError(ws) ==
    /\ sockets[ws].readyState # "closed"
    /\ sockets[ws].attached
    /\ ProviderBecomes([Provider EXCEPT !.connectionStatus = "error",
                                        !.wsError = "Connection error"])
    /\ UNCHANGED <<reconnectTimers, lastCall>>

\* The server or the network closes the socket: ws.onclose.
SocketCloses(ws) ==
    /\ RemoteCloses < MaxCloses
    /\ sockets[ws].readyState # "closed"
    /\ LET gone == [Provider EXCEPT !.sockets[ws].readyState = "closed",
                                    !.sockets[ws].closedBy = "network"]
           down == [cleanupTimers(gone) EXCEPT !.isConnected = FALSE]
       IN  IF ~sockets[ws].attached
           THEN ProviderBecomes(gone) /\ UNCHANGED reconnectTimers
           ELSE IF ~manualDisconnectRef
           THEN /\ ProviderBecomes(
                       [down EXCEPT !.connectionStatus = "error",
                                    !.wsError = "Connection closed"])
                /\ reconnectTimers' = reconnectTimers \cup {ws}
           ELSE /\ ProviderBecomes(
                       [down EXCEPT !.connectionStatus = "disconnected"])
                /\ UNCHANGED reconnectTimers
    /\ UNCHANGED lastCall

\* The connection timeout set by connect fires.
ConnectTimeout(ws) ==
    /\ ws \in connectTimeouts
    /\ LET fired == [Provider EXCEPT !.connectTimeouts = @ \ {ws}]
       IN  IF sockets[ws].readyState # "open"
           THEN ProviderBecomes(disconnect(fired)) /\ lastCall' = "disconnect"
           ELSE ProviderBecomes(fired) /\ UNCHANGED lastCall
    /\ UNCHANGED reconnectTimers

\* The reconnect timer set by the close of `ws` fires.
Reconnect(ws) ==
    /\ ws \in reconnectTimers
    /\ reconnectTimers' = reconnectTimers \ {ws}
    /\ IF ~manualDisconnectRef
       THEN ProviderBecomes(connect(Provider, sockets[ws].url, ws))
       ELSE ProviderBecomes(Provider)
    /\ UNCHANGED lastCall

SocketFrame ==
    /\ engine = "socket"
    /\ UNCHANGED <<engine, histVars, rtVars, sessionVars, portVars, appVars, sortVars, editVars>>

SocketNext ==
    \/ SocketFrame /\ \E url \in Urls : UserConnect(url)
    \/ SocketFrame /\ UserDisconnect
    \/ SocketFrame /\ \E ws \in DOMAIN sockets : SocketOpens(ws)
    \/ SocketFrame /\ \E ws \in DOMAIN sockets : SocketError(ws)
    \/ SocketFrame /\ \E ws \in DOMAIN sockets : SocketCloses(ws)
    \/ SocketFrame /\ \E ws \in DOMAIN sockets : ConnectTimeout(ws)
    \/ SocketFrame /\ \E ws \in DOMAIN sockets : Reconnect(ws)

\* A timer that was set fires.
SocketSpec ==
    /\ SocketInit
    /\ [][SocketNext]_vars
    /\ \A ws \in 1 .. MaxUserConnects + MaxCloses :
           WF_vars(SocketFrame /\ Reconnect(ws))

(***************************************************************************)
(* "Sort nodes by importance" on one layer: the nodes of a layer with      *)
(* their aggregate values and connection counts, sorted from any order in  *)
(* which the frames can have listed them.                                  *)
(***************************************************************************)
SortValueChoices == {0, 100, 120, 140}
SortCountChoices == {1, 2}

\* The orders in which frames can list the nodes.
Listings ==
    {listing \in [DOMAIN NodeNames -> Nodes] :
        \A i, j \in DOMAIN NodeNames : i # j => listing[i] # listing[j]}

\* nodes.sort of the layer listed as `listing`.
sortByImportance(listing, values, counts) ==
    ArraySort(LAMBDA a, b : compareImportance(a, b, values, counts), listing)

SortInit ==
    /\ engine = "sort"
    /\ HistIdle
    /\ RtIdle
    /\ SessionsIdle
    /\ PortIdle
    /\ AppIdle
    /\ SocketIdle
    /\ EditIdle
    /\ sortValues \in [Nodes -> SortValueChoices]
    /\ sortCounts \in [Nodes -> SortCountChoices]
    /\ sortListed = <<>>
    /\ sortResult = <<>>

SortLayer(listing) ==
    /\ engine = "sort"
    /\ sortListed' = listing
    /\ sortResult' = sortByImportance(listing, sortValues, sortCounts)
    /\ UNCHANGED <<sortValues, sortCounts>>
    /\ UNCHANGED <<engine, histVars, rtVars, sessionVars, portVars, appVars,
                   socketVars, editVars>>

SortNext == \E listing \in Listings : SortLayer(listing)

SortSpec == SortInit /\ [][SortNext]_vars

(***************************************************************************)
(* Edits on the object graph: frames, their node arrays and their nodes    *)
(* are objects with identity, so a write through a shared reference shows  *)
(* in every holder.                                                        *)
(***************************************************************************)
\* No objects allocated yet.
EmptyHeap == [frames |-> <<>>, arrays |-> <<>>, nodes |-> <<>>]

\* The frames as parsed from a file: every frame, array and node is a fresh
\* object; the result is the array of frame references.
LoadFrames(fs) ==
    FoldLeft(LAMBDA acc, frame :
        LET withNodes ==
                FoldLeft(LAMBDA a, node :
                             [heap |-> [a.heap EXCEPT !.nodes = Append(@, node)],
                              refs |-> Append(a.refs, Len(a.heap.nodes) + 1)],
                         [heap |-> acc.heap, refs |-> <<>>], frame.nodes)
            withArray == [withNodes.heap EXCEPT !.arrays = Append(@, withNodes.refs)]
            withFrame == [withArray EXCEPT !.frames =
                             Append(@, [timestamp |-> frame.timestamp,
                                        tick |-> frame.tick,
                                        nodes |-> Len(withArray.arrays),
                                        links |-> frame.links])]
        IN  [heap |-> withFrame, refs |-> Append(acc.refs, Len(withFrame.frames))],
        [heap |-> EmptyHeap, refs |-> <<>>], fs)

\* The frames an array of references stands for, by value.
DerefFrames(heap, refs) ==
    Map(refs, LAMBDA f :
        [timestamp |-> heap.frames[f].timestamp,
         tick |-> heap.frames[f].tick,
         nodes |-> Map(heap.arrays[heap.frames[f].nodes], LAMBDA n : heap.nodes[n]),
         links |-> heap.frames[f].links])

\* A variant that keeps the frame's own nodes array in the copied frame, so
\* the assignment writes into the caller's array.
updateNodePositionSharingNodes(heap, fs, nodeName, newX, newY) ==
    FoldLeft(LAMBDA acc, f :
        LET frame == acc.heap.frames[f]
            items == acc.heap.arrays[frame.nodes]
            found == {i \in DOMAIN items : acc.heap.nodes[items[i]].name = nodeName}
        IN  IF found = {} THEN [heap |-> acc.heap, refs |-> Append(acc.refs, f)]
            ELSE LET nodeIndex == CHOOSE i \in found : \A j \in found : i <= j
                     updatedFrame == Len(acc.heap.frames) + 1
                     updatedNode == Len(acc.heap.nodes) + 1
                 IN  [heap |->
                          [frames |-> Append(acc.heap.frames, frame),
                           arrays |-> [acc.heap.arrays EXCEPT
                                          ![frame.nodes][nodeIndex] = updatedNode],
                           nodes |-> Append(acc.heap.nodes,
                                            [acc.heap.nodes[items[nodeIndex]] EXCEPT
                                                !.customX = newX, !.customY = newY])],
                      refs |-> Append(acc.refs, updatedFrame)],
        [heap |-> heap, refs |-> <<>>], fs)

\* updateNodePosition on objects: frames.map; a frame with the node is
\* copied ({...frame, nodes: [...frame.nodes]}) and the copy's slot gets a
\* new node object ({...node, customX, customY}); a frame without the node
\* is returned as it is.
updateNodePositionOnHeap(heap, fs, nodeName, newX, newY) ==
    FoldLeft(LAMBDA acc, f :
        LET frame == acc.heap.frames[f]
            items == acc.heap.arrays[frame.nodes]
            found == {i \in DOMAIN items : acc.heap.nodes[items[i]].name = nodeName}
        IN  IF found = {} THEN [heap |-> acc.heap, refs |-> Append(acc.refs, f)]
            ELSE LET nodeIndex == CHOOSE i \in found : \A j \in found : i <= j
                     updatedFrame == Len(acc.heap.frames) + 1
                     updatedNodes == Len(acc.heap.arrays) + 1
                     updatedNode == Len(acc.heap.nodes) + 1
                 IN  [heap |->
                          [frames |-> Append(acc.heap.frames,
                                             [frame EXCEPT !.nodes = updatedNodes]),
                           arrays |-> Append(acc.heap.arrays,
                                             [items EXCEPT ![nodeIndex] = updatedNode]),
                           nodes |-> Append(acc.heap.nodes,
                                            [acc.heap.nodes[items[nodeIndex]] EXCEPT
                                                !.customX = newX, !.customY = newY])],
                      refs |-> Append(acc.refs, updatedFrame)],
        [heap |-> heap, refs |-> <<>>], fs)

\* A variant that drops customX and keeps customY.
resetNodePositionsKeepingY(heap, fs) ==
    FoldLeft(LAMBDA acc, f :
        LET frame == acc.heap.frames[f]
            items == acc.heap.arrays[frame.nodes]
            rest == Map(items, LAMBDA n :
                        [acc.heap.nodes[n] EXCEPT !.customX = undefined])
        IN  [heap |->
                 [frames |-> Append(acc.heap.frames,
                                    [frame EXCEPT !.nodes = Len(acc.heap.arrays) + 1]),
                  arrays |-> Append(acc.heap.arrays,
                                    [i \in DOMAIN items |-> Len(acc.heap.nodes) + i]),
                  nodes |-> acc.heap.nodes \o rest],
             refs |-> Append(acc.refs, Len(acc.heap.frames) + 1)],
        [heap |-> heap, refs |-> <<>>], fs)

\* resetNodePositions on objects: frames.map; every frame is copied with a
\* new nodes array of new node objects that lack customX and customY.
resetNodePositionsOnHeap(heap, fs) ==
    FoldLeft(LAMBDA acc, f :
        LET frame == acc.heap.frames[f]
            items == acc.heap.arrays[frame.nodes]
            rest == Map(items, LAMBDA n :
                        [acc.heap.nodes[n] EXCEPT !.customX = undefined,
                                                  !.customY = undefined])
        IN  [heap |->
                 [frames |-> Append(acc.heap.frames,
                                    [frame EXCEPT !.nodes = Len(acc.heap.arrays) + 1]),
                  arrays |-> Append(acc.heap.arrays,
                                    [i \in DOMAIN items |-> Len(acc.heap.nodes) + i]),
                  nodes |-> acc.heap.nodes \o rest],
             refs |-> Append(acc.refs, Len(acc.heap.frames) + 1)],
        [heap |-> heap, refs |-> <<>>], fs)

\* A file is loaded: the snapshots are fresh objects without overrides.
EditInit ==
    /\ engine = "edit"
    /\ HistIdle
    /\ RtIdle
    /\ SessionsIdle
    /\ PortIdle
    /\ AppIdle
    /\ SocketIdle
    /\ SortIdle
    /\ editOriginal \in HistBatches
    /\ \E loaded \in {LoadFrames(editOriginal)} :
           /\ editHeap = loaded.heap
           /\ editFrames = loaded.refs
           /\ editHeapBefore = loaded.heap
           /\ editInput = loaded.refs
    /\ editCalls = <<>>

\* A drag ends: updateNodePosition(frames, name, x, y), and the host stores
\* the returned frames (onFramesUpdated -> setSnapshots).
DragNode(nodeName, pos) ==
    /\ engine = "edit"
    /\ Len(editCalls) < MaxEdits
    /\ \E updated \in {updateNodePositionOnHeap(editHeap, editFrames, nodeName,
                                                pos.x, pos.y)} :
           /\ editHeap' = updated.heap
           /\ editFrames' = updated.refs
    /\ editHeapBefore' = editHeap
    /\ editInput' = editFrames
    /\ editCalls' = Append(editCalls, [op |-> "updateNodePosition",
                                       nodeName |-> nodeName,
                                       x |-> pos.x, y |-> pos.y])
    /\ UNCHANGED editOriginal
    /\ UNCHANGED <<engine, histVars, rtVars, sessionVars, portVars, appVars,
                   socketVars, sortVars>>

\* handleResetLabels: with snapshots loaded, store resetNodePositions of
\* them.
ResetLabels ==
    /\ engine = "edit"
    /\ Len(editCalls) < MaxEdits
    /\ Len(editFrames) > 0
    /\ \E resetFrames \in {resetNodePositionsOnHeap(editHeap, editFrames)} :
           /\ editHeap' = resetFrames.heap
           /\ editFrames' = resetFrames.refs
    /\ editHeapBefore' = editHeap
    /\ editInput' = editFrames
    /\ editCalls' = Append(editCalls, [op |-> "resetNodePositions",
                                       nodeName |-> "",
                                       x |-> undefined, y |-> undefined])
    /\ UNCHANGED editOriginal
    /\ UNCHANGED <<engine, histVars, rtVars, sessionVars, portVars, appVars,
                   socketVars, sortVars>>

EditNext ==
    \/ \E nodeName \in Nodes, pos \in DragPositions : DragNode(nodeName, pos)
    \/ ResetLabels

EditSpec == EditInit /\ [][EditNext]_vars

(***************************************************************************)
(* Both engines: the host runs one or the other.                           *)
(***************************************************************************)
Init == HistInit \/ RtInit

Next == HistNext \/ RtNext

Spec == Init /\ [][Next]_vars

(***************************************************************************)
(* Properties.                                                             *)
(***************************************************************************)
RECURSIVE SumHeights(_, _)
SumHeights(S, nodePositions) ==
    IF S = {} THEN 0
    ELSE LET n == CHOOSE m \in S : TRUE
         IN  nodePositions[n].height + SumHeights(S \ {n}, nodePositions)

\* The nodes of one layer of a LayoutState.
LayerMembers(nodePositions, layer) ==
    {n \in DOMAIN nodePositions : nodePositions[n].layer = layer}

\* The frame of the last computeLayout call a LayoutState was computed from.
InputFrameOf(state) ==
    layoutInput[CHOOSE i \in DOMAIN layoutInput :
                    layoutInput[i].timestamp = state.timestamp]

\* The layout on display was computed from the frames as they are now.
LayoutIsCurrent == layoutInput = frames /\ layoutStates # <<>>

\* Within the states returned by one computeLayout call a node has one layer.
HistLayersAgree ==
    \A i, j \in DOMAIN layoutStates :
        \A n \in DOMAIN layoutStates[i].nodePositions
                    \cap DOMAIN layoutStates[j].nodePositions :
            layoutStates[i].nodePositions[n].layer
                = layoutStates[j].nodePositions[n].layer

\* C1 as claimed: layer permanence.  In one computeLayout call every state
\* reports the same layer for a node, and in a real-time session every
\* LayoutState reports for each of its nodes the layer last reported for it,
\* however long the node was absent in between.
C1_LayerPermanence ==
    [][/\ HistLayersAgree'
       /\ rtLayout' # <<>> =>
              \A n \in DOMAIN rtLayout'[1].nodePositions \cap DOMAIN rtEmitted :
                  rtLayout'[1].nodePositions[n].layer = rtEmitted[n]]_vars

\* C1 amended: the same, for the nodes that are still in the cache when the
\* call starts (a node evicted as stale gets a newly inferred layer).
C1_LayerPermanenceWhileCached ==
    [][/\ HistLayersAgree'
       /\ rtLayout' # <<>> =>
              \A n \in (DOMAIN rtLayout'[1].nodePositions \cap DOMAIN rtEmitted)
                          \cap DOMAIN cacheOrNew(rtCache).nodePositions :
                  rtLayout'[1].nodePositions[n].layer = rtEmitted[n]]_vars

\* C1 witness: a node of a layer other than the first is back in the
\* LayoutState after 1 to 5 frames of absence.
C1_Witness ==
    /\ rtLayout # <<>>
    /\ \E n \in DOMAIN rtGap :
           /\ rtGap[n] >= 2 /\ rtGap[n] <= 6
           /\ rtLayout[1].nodePositions[n].layer > 0

\* Every layer of a LayoutState fits the usable height.
LayersFit(nodePositions, usableHeight, nodePadding) ==
    \A n \in DOMAIN nodePositions :
        LET members == LayerMembers(nodePositions, nodePositions[n].layer)
        IN  SumHeights(members, nodePositions)
                + (Cardinality(members) - 1) * nodePadding <= usableHeight

\* C2 as claimed: height fit.  In every LayoutState of either engine the
\* heights of a layer's nodes plus the padding between them are at most the
\* canvas height minus the top and bottom margins.
C2_HeightFit ==
    /\ \A i \in DOMAIN layoutStates :
           LayersFit(layoutStates[i].nodePositions,
                     HistHeight - HistMarginTop - HistMarginBottom,
                     HistNodePadding)
    /\ rtLayout # <<>> =>
           LayersFit(rtLayout[1].nodePositions,
                     RtHeight - RtMarginTop - RtMarginBottom, RtNodePadding)

\* C3 as claimed: staleness eviction.  A node that appeared and has been
\* absent from the last 6 or more frames is in neither the cache nor the
\* LayoutState; one absent from 5 or fewer is still in the cache.
C3_StalenessEviction ==
    rtCache # <<>> =>
        \A n \in DOMAIN rtNodeSeenAt :
            LET absent == rtClock - rtNodeSeenAt[n]
            IN  /\ absent >= 6 =>
                       /\ n \notin DOMAIN rtCache[1].nodePositions
                       /\ n \notin DOMAIN rtLayout[1].nodePositions
                /\ absent <= 5 => n \in DOMAIN rtCache[1].nodePositions

\* The vertical order of two nodes of one layer in a LayoutState.
Above(state, a, b) == state.nodePositions[a].y < state.nodePositions[b].y

\* C4: stable ordering.  When every frame passed to computeLayout has the
\* same node set, two nodes of one layer are in the same vertical order in
\* every returned LayoutState.
C4_StableOrdering ==
    (\A i, j \in DOMAIN layoutInput :
         Range(layoutInput[i].nodes) = Range(layoutInput[j].nodes))
    => \A i, j \in DOMAIN layoutStates :
           \A a, b \in DOMAIN layoutStates[i].nodePositions
                         \cap DOMAIN layoutStates[j].nodePositions :
               layoutStates[i].nodePositions[a].layer
                   = layoutStates[i].nodePositions[b].layer
               => (Above(layoutStates[i], a, b) <=> Above(layoutStates[j], a, b))

\* C4 witness: two states over the same nodes, with two nodes of one layer
\* one above the other, from frames whose links differ.
C4_Witness ==
    /\ Len(layoutStates) >= 2
    /\ \A i, j \in DOMAIN layoutInput :
           Range(layoutInput[i].nodes) = Range(layoutInput[j].nodes)
    /\ layoutInput[1].links # layoutInput[2].links
    /\ \E a, b \in DOMAIN layoutStates[1].nodePositions :
           /\ layoutStates[1].nodePositions[a].layer
                  = layoutStates[1].nodePositions[b].layer
           /\ Above(layoutStates[1], a, b)

\* C5: override precedence (historical).  While an override stored by
\* updateNodePosition has not been reset, every LayoutState computed from
\* the frames reports the node at exactly that x and y, with isDragged.
C5_OverridePrecedence ==
    LayoutIsCurrent =>
        \A n \in DOMAIN stored :
            \A i \in DOMAIN layoutStates :
                n \in DOMAIN layoutStates[i].nodePositions =>
                    /\ layoutStates[i].nodePositions[n].x = 2 * stored[n].x
                    /\ layoutStates[i].nodePositions[n].y = 2 * stored[n].y
                    /\ layoutStates[i].nodePositions[n].isDragged

\* C5 witness: a node dragged to x = 0, y = 0 is reported there.
C5_Witness ==
    /\ LayoutIsCurrent
    /\ \E n \in DOMAIN stored :
           /\ stored[n].x = 0 /\ stored[n].y = 0
           /\ \E i \in DOMAIN layoutStates :
                  /\ n \in DOMAIN layoutStates[i].nodePositions
                  /\ layoutStates[i].nodePositions[n].isDragged
                  /\ layoutStates[i].nodePositions[n].x = 0

\* C6 as claimed: override precedence (real-time).  A node of the frame that
\* has a custom override is reported at exactly the override's x and y.
C6_RealtimeOverride ==
    rtLayout # <<>> =>
        \A n \in DOMAIN rtCustomPositions \cap DOMAIN rtLayout[1].nodePositions :
            /\ rtLayout[1].nodePositions[n].x = 2 * rtCustomPositions[n].x
            /\ rtLayout[1].nodePositions[n].y = 2 * rtCustomPositions[n].y

\* The frames without the override on one node.
WithoutOverride(fs, nodeName) ==
    [i \in DOMAIN fs |->
        [fs[i] EXCEPT !.nodes =
            [k \in DOMAIN fs[i].nodes |->
                IF fs[i].nodes[k].name = nodeName
                THEN Node(nodeName) ELSE fs[i].nodes[k]]]]

\* C7: an override moves only its own node.  Compared with the layout of
\* the same frames without the override on n, every other node has the same
\* x, y, height and layer, and n has the same layer and height.
C7_OverrideIsLocal ==
    LayoutIsCurrent =>
        \A n \in DOMAIN stored :
            LET plain == computeLayout(WithoutOverride(frames, n),
                                       HistWidth, HistHeight, NoCustomPositions)
            IN  /\ Len(plain) = Len(layoutStates)
                /\ \A i \in DOMAIN layoutStates :
                       /\ DOMAIN plain[i].nodePositions
                              = DOMAIN layoutStates[i].nodePositions
                       /\ \A m \in DOMAIN layoutStates[i].nodePositions :
                              IF m = n
                              THEN /\ layoutStates[i].nodePositions[m].layer
                                          = plain[i].nodePositions[m].layer
                                   /\ layoutStates[i].nodePositions[m].height
                                          = plain[i].nodePositions[m].height
                              ELSE layoutStates[i].nodePositions[m]
                                       = plain[i].nodePositions[m]

\* C7 witness: a dragged node and an undragged one in the same LayoutState,
\* the dragged one in two frames.
C7_Witness ==
    /\ LayoutIsCurrent
    /\ Len(layoutStates) >= 2
    /\ \E n \in DOMAIN stored :
           /\ \A i \in DOMAIN layoutStates :
                  /\ n \in DOMAIN layoutStates[i].nodePositions
                  /\ layoutStates[i].nodePositions[n].isDragged
           /\ \E m \in DOMAIN layoutStates[1].nodePositions :
                  ~layoutStates[1].nodePositions[m].isDragged

\* The (source, target) pairs of a list of links or link paths, in order.
Ends(list) == [i \in DOMAIN list |-> <<list[i].source, list[i].target>>]

\* The link paths are exactly the frame's links with both ends among names,
\* in the frame's order, and every end has a node position.
LinksAreTheValidOnes(state, links, names) ==
    /\ Ends(state.linkPaths)
           = Ends(SelectSeq(links, LAMBDA l : l.source \in names /\ l.target \in names))
    /\ \A i \in DOMAIN state.linkPaths :
           /\ state.linkPaths[i].source \in DOMAIN state.nodePositions
           /\ state.linkPaths[i].target \in DOMAIN state.nodePositions

\* C8: dangling links never reach the output.  In every LayoutState of
\* either engine the link paths are the frame's links whose source and
\* target are both nodes of that frame, all of them, and both ends are keys
\* of nodePositions.
C8_NoDanglingLinks ==
    /\ \A i \in DOMAIN layoutStates :
           LET frame == InputFrameOf(layoutStates[i])
           IN  LinksAreTheValidOnes(layoutStates[i], frame.links,
                   {frame.nodes[k].name : k \in DOMAIN frame.nodes})
    /\ rtLayout # <<>> =>
           LinksAreTheValidOnes(rtLayout[1], rtFrame[1].links,
               {IF rtFrame[1].nodes[k].id # "" THEN rtFrame[1].nodes[k].id
                ELSE rtFrame[1].nodes[k].name : k \in DOMAIN rtFrame[1].nodes})

\* C8 witness: a frame with a dangling link and a valid one; only the valid
\* one has a path.
C8_Witness ==
    \E i \in DOMAIN layoutStates :
        /\ Len(layoutStates[i].linkPaths) = 1
        /\ Len(InputFrameOf(layoutStates[i]).links) = 2

\* C9 as claimed: a link's cached value stays in cache.linkValues while the
\* link has been absent from the input for 5 frames or fewer.
C9_LinkValueRetained ==
    rtCache # <<>> =>
        \A k \in DOMAIN rtLinkSeenAt :
            rtClock - rtLinkSeenAt[k] <= 5 => k \in DOMAIN rtCache[1].linkValues

\* C9 amended: after a call whose tick is at most 5 the cache holds every
\* value it held before plus the frame's valid links; after a call whose
\* tick is above 5 it holds the frame's valid links only, so a link that was
\* dropped from one frame restarts from its raw value when it returns.
C9_LinkValueKeptWhilePresent ==
    [][rtCache' # <<>> =>
          LET before == cacheOrNew(rtCache).linkValues
              after == rtCache'[1].linkValues
              links == rtValidLinks(rtFrame'[1])
          IN  /\ DOMAIN after =
                     linkKeys(links)
                         \cup (IF rtCache'[1].lastTick > 5 THEN {} ELSE DOMAIN before)
              /\ \A i \in DOMAIN links :
                     <<links[i].source, links[i].target>> \notin DOMAIN before
                     => after[<<links[i].source, links[i].target>>]
                            = [num |-> links[i].value, exp |-> 0]]_vars

\* C9 witness: a link sent before is missing from the cache although it has
\* been absent for 5 frames or fewer.
C9_Witness ==
    /\ rtCache # <<>>
    /\ \E k \in DOMAIN rtLinkSeenAt :
           /\ rtClock - rtLinkSeenAt[k] >= 1
           /\ rtClock - rtLinkSeenAt[k] <= 5
           /\ k \notin DOMAIN rtCache[1].linkValues

\* C10 as claimed: tick derivation.  The tick recorded as lastTick and as
\* lastSeen of the frame's nodes is the frame's tick field whenever the
\* field is present (0 included), else the timestamp in seconds.
C10_TickDerivation ==
    rtCache # <<>> =>
        LET tick == IF rtFrame[1].tick # undefined THEN rtFrame[1].tick
                    ELSE rtFrame[1].timestamp
        IN  /\ rtCache[1].lastTick = tick
            /\ \A n \in DOMAIN rtLayout[1].nodePositions :
                   rtCache[1].nodePositions[n].lastSeen = tick

\* |d - v| for a decimal d and an integer v, as a decimal.
DecError(d, v) == [num |-> Abs(d.num - v * Pow10(d.exp)), exp |-> d.exp]

\* a < b for two non-negative decimals.
DecLess(a, b) == a.num * Pow10(b.exp) < b.num * Pow10(a.exp)

\* The value the steady stream sends, and the cache entry of its link.
SteadyValue == rtFrame[1].links[1].value
SteadyCached(cache) == cache[1].linkValues[<<"A", "B">>]

\* C11 as claimed: smoothing approaches monotonically.  With a constant
\* value v for one link and no prior cache, the error |smoothed - v| is
\* strictly smaller after every call after the first than after the call
\* before it.
C11_ErrorStrictlyDecreases ==
    [][(rtCache # <<>> /\ rtClock' = rtClock + 1) =>
          DecLess(DecError(SteadyCached(rtCache'), SteadyValue),
                  DecError(SteadyCached(rtCache), SteadyValue))]_vars

\* C11 amended: with a constant value v for one link and no prior cache the
\* cached value is v itself after the first call and after every later
\* call: the error is zero throughout and never decreases.
C11_SteadyValueIsKept ==
    rtCache # <<>> =>
        /\ <<"A", "B">> \in DOMAIN rtCache[1].linkValues
        /\ SteadyCached(rtCache) = Decimal(SteadyValue)

\* C11 witness: the fifth frame of a stream of 10s has been smoothed.
C11_Witness ==
    /\ rtClock = 5
    /\ SteadyValue = 10
    /\ SteadyCached(rtCache) = Decimal(10)
    /\ rtLayout[1].linkPaths[1].value = Decimal(10)

\* C12: smoothing convergence.  After a link with no prior cache entry was
\* sent with the same value v on 20 or more consecutive ticks, its cached
\* value differs from v by at most 1% of v.
C12_SmoothingConverges ==
    rtClock >= 20 =>
        LET error == DecError(SteadyCached(rtCache), SteadyValue)
        IN  100 * error.num <= SteadyValue * Pow10(error.exp)

\* C12 witness: 20 frames and 21 frames of the same value were received.
C12_Witness ==
    /\ rtClock >= 20
    /\ SteadyValue = 250
    /\ <<"A", "B">> \in DOMAIN rtCache[1].linkValues

\* C13: the historical scenario.  For two frames over A, B, C with links
\* A -> B and B -> C whose values increase, computeLayout returns two states;
\* in both A has layer 0, B layer 1 and C layer 2, any two nodes are in the
\* same vertical order in both, and B is at least as high in the second
\* state as in the first.
C13_ChainScenario ==
    layoutStates # <<>> =>
        /\ Len(layoutStates) = 2
        /\ \A i \in {1, 2} :
               /\ layoutStates[i].nodePositions["A"].layer = 0
               /\ layoutStates[i].nodePositions["B"].layer = 1
               /\ layoutStates[i].nodePositions["C"].layer = 2
        /\ \A a, b \in {"A", "B", "C"} :
               Above(layoutStates[1], a, b) <=> Above(layoutStates[2], a, b)
        /\ layoutStates[2].nodePositions["B"].height
               >= layoutStates[1].nodePositions["B"].height

\* C13 witness: the frames A->B:10, B->C:5 and A->B:20, B->C:15 are laid out.
C13_Witness ==
    /\ Len(layoutStates) = 2
    /\ layoutInput = <<ChainFrame(0, 10, 5), ChainFrame(1, 20, 15)>>
    /\ layoutStates[1].nodePositions["B"].layer = 1

\* The timestamps of a list of frames or of LayoutStates, in order.
Timestamps(list) == [i \in DOMAIN list |-> list[i].timestamp]

RunAlone(contents) == FoldLeft(SessionCall, NewSession, contents)

C16_PortExclusivity ==
    \A i, j \in DOMAIN portsUsed : i # j => portsUsed[i] # portsUsed[j]

\* The frames delivered so far, in arrival order.
Arrivals == [i \in 1 .. arrived |-> i]

\* C17 as claimed: the real-time history is bounded.  Whenever every
\* delivered frame has been forwarded, snapshots holds at most 100 frames,
\* and they are the most recently delivered frames in arrival order.
C17_HistoryBounded ==
    streamEffect = StreamEffectDeps =>
        /\ Len(snapshots) <= MaxSnapshots
        /\ snapshots = SliceLast(Arrivals, MaxSnapshots)

\* The sockets this step creates.
NewSockets == DOMAIN sockets' \ DOMAIN sockets

\* What one step of the provider may do about reconnection.
ReconnectStep ==
    \* the network closing a socket leaves its reconnect timer pending
    /\ \A ws \in DOMAIN sockets :
           (sockets[ws].closedBy = "none" /\ sockets'[ws].closedBy = "network")
               => ws \in reconnectTimers'
    \* a close by disconnect() leaves none
    /\ \A ws \in DOMAIN sockets :
           (sockets[ws].closedBy = "none" /\ sockets'[ws].closedBy = "disconnect")
               => ws \notin reconnectTimers'
    \* the timer makes one attempt, to the URL of the closed socket, unless
    \* disconnect() was called and the user has not connected since
    /\ \A ws \in reconnectTimers \ reconnectTimers' :
           IF lastCall = "disconnect"
           THEN NewSockets = {}
           ELSE \E new \in NewSockets :
                    /\ NewSockets = {new}
                    /\ sockets'[new].origin = ws
                    /\ sockets'[new].url = sockets[ws].url
    \* every attempt the user did not ask for comes from such a timer
    /\ \A new \in NewSockets :
           sockets'[new].origin # 0 =>
               /\ sockets'[new].origin \in reconnectTimers \ reconnectTimers'
               /\ sockets[sockets'[new].origin].closedBy = "network"
               /\ \A old \in DOMAIN sockets :
                      sockets[old].origin # sockets'[new].origin
    \* after disconnect() only the user's connect(url) makes an attempt
    /\ (lastCall = "disconnect" /\ lastCall' = "disconnect") => NewSockets = {}

\* C18: auto-reconnect.  A socket closed by the network, and never one
\* closed by disconnect(), gets one new connection attempt to the same URL
\* when its timer fires, the timer does fire, and after disconnect() no
\* attempt is made until the user calls connect(url) again.
C18_AutoReconnect ==
    /\ [][ReconnectStep]_vars
    /\ \A ws \in 1 .. MaxUserConnects + MaxCloses :
           (ws \in reconnectTimers) ~> (ws \notin reconnectTimers)

\* A socket closed by the network was replaced by a reconnect attempt, and
\* another one's timer found that disconnect() had been called.
C18_Witness ==
    /\ \E ws \in DOMAIN sockets : sockets[ws].origin # 0
    /\ \E ws \in DOMAIN sockets :
           /\ sockets[ws].closedBy = "network"
           /\ ws \notin reconnectTimers
           /\ \A k \in DOMAIN sockets : sockets[k].origin # ws

\* C19 as claimed: new nodes go last.  In the LayoutState of a frame, a
\* node never sent before is below every node of its layer that was also in
\* the frame before (and so already has a smoothed y in the cache).
C19_NewNodesGoLast ==
    rtLayout # <<>> =>
        \A n, m \in DOMAIN rtLayout[1].nodePositions :
            (/\ rtGap[n] = 0
             /\ rtGap[m] = 1
             /\ rtLayout[1].nodePositions[n].layer
                    = rtLayout[1].nodePositions[m].layer)
            => Above(rtLayout[1], m, n)

\* Two nodes of one layer of a LayoutState, the first above the second.
OrderedPairs(state) ==
    {pair \in (DOMAIN state.nodePositions) \X (DOMAIN state.nodePositions) :
        /\ state.nodePositions[pair[1]].layer
               = state.nodePositions[pair[2]].layer
        /\ Above(state, pair[1], pair[2])}

\* One call keeps the order of the nodes that are in both LayoutStates.
OrderKept ==
    (rtLayout # <<>> /\ rtLayout' # <<>>) =>
        \A pair \in OrderedPairs(rtLayout[1]) :
            (/\ pair[1] \in DOMAIN rtLayout'[1].nodePositions
             /\ pair[2] \in DOMAIN rtLayout'[1].nodePositions)
            => ~Above(rtLayout'[1], pair[2], pair[1])

\* C20: real-time order stability.  Two nodes of one layer that are in two
\* consecutive frames of a session, the first above the second in the first
\* LayoutState, are not the other way round in the second LayoutState.
C20_OrderStability == [][OrderKept]_vars

\* C20 witness: two nodes that were in the frame before are one above the
\* other at new positions, in a layer that a third node has just joined.
C20_Witness ==
    /\ rtLayout # <<>>
    /\ \E pair \in OrderedPairs(rtLayout[1]) :
           \E other \in DOMAIN rtLayout[1].nodePositions :
               /\ rtGap[pair[1]] = 1
               /\ rtGap[pair[2]] = 1
               /\ rtGap[other] # 1
               /\ rtLayout[1].nodePositions[other].layer
                      = rtLayout[1].nodePositions[pair[1]].layer
               /\ rtLayout[1].nodePositions[pair[1]].height
                      # rtLayout[1].nodePositions[pair[2]].height

\* old * 0.7 + current * 0.3, once for each occurrence of the link `key`
\* in `links`.
SmoothedOver(old, key, links) ==
    FoldLeft(LAMBDA acc, link :
                 IF <<link.source, link.target>> = key
                 THEN smoothValue(acc, link.value) ELSE acc,
             old, links)

\* C21 as claimed: the exponential smoothing step.  For every link of the
\* new frame whose key has a cached value old, 0 included, the cached value
\* after the call is old * 0.7 + current * 0.3 applied once per occurrence.
C21_SmoothingStep ==
    [][(rtCache # <<>> /\ rtClock' = rtClock + 1) =>
          \A key \in DOMAIN rtCache[1].linkValues
                       \cap linkKeys(rtValidLinks(rtFrame'[1])) :
              rtCache'[1].linkValues[key]
                  = SmoothedOver(rtCache[1].linkValues[key], key,
                                 rtValidLinks(rtFrame'[1]))]_vars

\* The nodes reached from `from` along links, in at most `steps` more hops.
RECURSIVE ReachedFrom(_, _, _)
ReachedFrom(from, links, steps) ==
    IF steps = 0 THEN from
    ELSE ReachedFrom(from \cup {links[i].target :
                                   i \in {j \in DOMAIN links :
                                             links[j].source \in from}},
                     links, steps - 1)

\* No node of the frame reaches itself along the frame's links.
Acyclic(links) ==
    \A i \in DOMAIN links :
        links[i].source \notin ReachedFrom({links[i].target}, links, Len(links))

\* Every link path of a LayoutState goes to a greater layer.
LayersIncrease(state) ==
    \A i \in DOMAIN state.linkPaths :
        state.nodePositions[state.linkPaths[i].source].layer
            < state.nodePositions[state.linkPaths[i].target].layer

\* C22 as claimed: layers increase along links.  In every LayoutState of
\* either engine, for frames of an acyclic graph, every emitted link path
\* goes from its source to a target of a strictly greater layer.
C22_LayersIncreaseAlongLinks ==
    /\ (\A i \in DOMAIN layoutInput : Acyclic(layoutInput[i].links))
           => \A i \in DOMAIN layoutStates : LayersIncrease(layoutStates[i])
    /\ (rtLayout # <<>> /\ Acyclic(rtFrame[1].links))
           => LayersIncrease(rtLayout[1])

\* a sorts before b under the layer's comparator.
Before(a, b) == compareImportance(a, b, sortValues, sortCounts) < 0

\* The comparator orders the nodes of the layer strictly and totally.
StrictTotalOrder ==
    /\ \A a \in Nodes : ~Before(a, a)
    /\ \A a, b \in Nodes : a # b => (Before(a, b) <=> ~Before(b, a))
    /\ \A a, b, c \in Nodes : (Before(a, b) /\ Before(b, c)) => Before(a, c)

\* C23 as claimed: deterministic per-layer order.  The comparator of
\* "Sort nodes by importance" is a strict total order, and the sorted layer
\* is the same for every order in which the frames list its nodes.
C23_DeterministicOrder ==
    sortResult # <<>> =>
        /\ StrictTotalOrder
        /\ \A listing \in Listings :
               sortByImportance(listing, sortValues, sortCounts) = sortResult

\* The batch without its dangling links: each frame keeps the links whose
\* two ends are nodes of that frame.
WithoutDangling(fs) ==
    Map(fs, LAMBDA frame :
        [frame EXCEPT !.links =
            Filter(frame.links,
                   LAMBDA link :
                       /\ \E i \in DOMAIN frame.nodes :
                              frame.nodes[i].name = link.source
                       /\ \E i \in DOMAIN frame.nodes :
                              frame.nodes[i].name = link.target)])

\* C24 as claimed: a dangling link has no effect on geometry.  The
\* LayoutStates computeLayout returns are those it returns for the same
\* batch without the links whose source or target is not in their frame.
C24_DanglingLinkHasNoEffect ==
    (layoutInput # <<>> /\ ~computeLayoutThrows(WithoutDangling(layoutInput)))
        => layoutStates = computeLayout(WithoutDangling(layoutInput),
                                        HistWidth, HistHeight, NoCustomPositions)

\* Every node height of the returned LayoutStates is within [low, high].
HeightsWithin(low, high) ==
    \A i \in DOMAIN layoutStates :
        \A n \in DOMAIN layoutStates[i].nodePositions :
            /\ low <= layoutStates[i].nodePositions[n].height
            /\ layoutStates[i].nodePositions[n].height <= high

LastEdit == editCalls[Len(editCalls)]
FramesBeforeEdit == DerefFrames(editHeapBefore, editInput)
FramesAfterEdit == DerefFrames(editHeap, editFrames)
HasNode(frame, nodeName) == \E j \in DOMAIN frame.nodes : frame.nodes[j].name = nodeName

\* C26: updateNodePosition is pure and local.  After a call, every object
\* that existed before it is as it was (the input frames and their nodes are
\* not modified); the result has one frame per input frame; a frame that
\* contains the named node differs from its input only in customX and
\* customY of that node, which are the given x and y, every other node and
\* every link being unchanged; a frame without the node is the input frame
\* itself.
C26_UpdateIsPureAndLocal ==
    (editCalls # <<>> /\ LastEdit.op = "updateNodePosition") =>
        /\ \A kind \in {"frames", "arrays", "nodes"} :
               /\ Len(editHeapBefore[kind]) <= Len(editHeap[kind])
               /\ \A ref \in DOMAIN editHeapBefore[kind] :
                      editHeap[kind][ref] = editHeapBefore[kind][ref]
        /\ Len(editFrames) = Len(editInput)
        /\ \A i \in DOMAIN editInput :
               LET old == FramesBeforeEdit[i]
                   new == FramesAfterEdit[i]
               IN  IF HasNode(old, LastEdit.nodeName)
                   THEN /\ new.timestamp = old.timestamp
                        /\ new.tick = old.tick
                        /\ new.links = old.links
                        /\ Len(new.nodes) = Len(old.nodes)
                        /\ \A j \in DOMAIN old.nodes :
                               IF old.nodes[j].name = LastEdit.nodeName
                               THEN new.nodes[j] =
                                        [old.nodes[j] EXCEPT
                                            !.customX = LastEdit.x,
                                            !.customY = LastEdit.y]
                               ELSE new.nodes[j] = old.nodes[j]
                   ELSE editFrames[i] = editInput[i]

\* A second drag, of a node that one frame holds beside other nodes and
\* another frame lacks, on frames that already carry an override.
C26_Witness ==
    /\ Len(editCalls) = 2
    /\ LastEdit.op = "updateNodePosition"
    /\ editCalls[1].op = "updateNodePosition"
    /\ editCalls[1].nodeName # LastEdit.nodeName
    /\ \E i, k \in DOMAIN editInput :
           /\ HasNode(FramesBeforeEdit[i], LastEdit.nodeName)
           /\ Len(FramesBeforeEdit[i].nodes) > 1
           /\ FramesBeforeEdit[i].links # <<>>
           /\ ~HasNode(FramesBeforeEdit[k], LastEdit.nodeName)
           /\ \E j \in DOMAIN FramesBeforeEdit[k].nodes :
                  FramesBeforeEdit[k].nodes[j].customX # undefined

\* resetNodePositions applied to the host's frames, and applied again to
\* its own result, by value.
ResetOnce ==
    With(resetNodePositionsOnHeap(editHeap, editFrames),
         LAMBDA once : DerefFrames(once.heap, once.refs))
ResetTwice ==
    With(resetNodePositionsOnHeap(editHeap, editFrames),
         LAMBDA once :
             With(resetNodePositionsOnHeap(once.heap, once.refs),
                  LAMBDA twice : DerefFrames(twice.heap, twice.refs)))
NoneDragged(states) ==
    \A i \in DOMAIN states :
        \A n \in DOMAIN states[i].nodePositions :
            ~states[i].nodePositions[n].isDragged

\* C27: reset round trip.  For frames loaded without overrides, the frames
\* after updateNodePosition and then resetNodePositions equal the loaded
\* frames node for node and link for link; resetting any frames twice gives
\* the same frames as resetting them once; and computeLayout on frames that
\* were just reset reports no node with isDragged true.
C27_ResetRoundTrip ==
    /\ ResetTwice = ResetOnce
    /\ (editCalls # <<>> /\ LastEdit.op = "resetNodePositions") =>
           /\ FramesAfterEdit = editOriginal
           /\ ~computeLayoutThrows(FramesAfterEdit) =>
                  NoneDragged(computeLayout(FramesAfterEdit, HistWidth, HistHeight,
                                            NoCustomPositions))

\* A drag of a node that some frame holds, then a reset, on frames that
\* computeLayout lays out.
C27_Witness ==
    /\ Len(editCalls) = 2
    /\ editCalls[1].op = "updateNodePosition"
    /\ LastEdit.op = "resetNodePositions"
    /\ FramesBeforeEdit # editOriginal
    /\ ~computeLayoutThrows(FramesAfterEdit)
    /\ computeLayout(FramesAfterEdit, HistWidth, HistHeight, NoCustomPositions) # <<>>

\* C28: no vertical overlap in the real-time layout.  For two nodes of one
\* layer of the emitted LayoutState, the upper one a and the lower one b,
\* y_a + height_a <= y_b.
C28_NoVerticalOverlap ==
    rtLayout # <<>> =>
        \A a, b \in DOMAIN rtLayout[1].nodePositions :
            (/\ rtLayout[1].nodePositions[a].layer = rtLayout[1].nodePositions[b].layer
             /\ Above(rtLayout[1], a, b))
            => rtLayout[1].nodePositions[a].y + 2 * rtLayout[1].nodePositions[a].height
                   <= rtLayout[1].nodePositions[b].y

\* C29: the connection flags agree.  In every state of the provider,
\* isConnected is true exactly when connectionStatus is "connected".
C29_ConnectionFlagsAgree ==
    engine = "socket" => (isConnected <=> connectionStatus = "connected")

\* C30: the displayed index is always valid.  Whenever snapshots is not
\* empty, 0 <= currentIndex < snapshots.length.
C30_DisplayedIndexValid ==
    snapshots # <<>> => (0 <= currentIndex /\ currentIndex < Len(snapshots))
====
